---- MODULE Spec2Model ----
(***************************************************************************)
(* Model of the speed-optimized recommendation workflow of moodify:        *)
(* generateClassicRecommendations and the functions it calls               *)
(* (src/unnamed/part_000).                                                 *)
(*                                                                         *)
(* Strings are sequences of one-character strings, so that lowercasing,    *)
(* trimming, slicing, splitting and character sets are computed as the     *)
(* code computes them.  A value that may be undefined or null in the       *)
(* JavaScript is an option: <<>> when absent, <<v>> when present.          *)
(***************************************************************************)
EXTENDS Integers, Sequences, FiniteSets, TLC

\* ------------------------------------------------------------------------
\* Options (undefined / null) and generic sequence helpers
\* ------------------------------------------------------------------------

None == <<>>

Some(v) == <<v>>

IsSome(o) == Len(o) = 1

Get(o) == o[1]

Min(a, b) == IF a <= b THEN a ELSE b

Max(a, b) == IF a >= b THEN a ELSE b

Range(s) == {s[i] : i \in 1..Len(s)}

\* Array.prototype.slice(0, n) for a non-negative integer n
Take(s, n) == SubSeq(s, 1, Min(n, Len(s)))

\* Array.prototype.slice(0, n) for any integer n: a negative n counts from the end
SliceTo(s, n) == IF n >= 0 THEN Take(s, n) ELSE Take(s, Max(Len(s) + n, 0))

\* Array.prototype.flat on an array of arrays
RECURSIVE Flat(_)
Flat(ss) == IF ss = <<>> THEN <<>> ELSE Head(ss) \o Flat(Tail(ss))

\* ------------------------------------------------------------------------
\* Strings
\* ------------------------------------------------------------------------

UpperChars == <<"A","B","C","D","E","F","G","H","I","J","K","L","M",
                "N","O","P","Q","R","S","T","U","V","W","X","Y","Z">>

LowerChars == <<"a","b","c","d","e","f","g","h","i","j","k","l","m",
                "n","o","p","q","r","s","t","u","v","w","x","y","z">>

Digits == <<"0","1","2","3","4","5","6","7","8","9">>

IsUpper(c) == c \in Range(UpperChars)

IsLetter(c) == c \in Range(UpperChars) \cup Range(LowerChars)

IsDigit(c) == c \in Range(Digits)

\* \w of a JavaScript regular expression
IsWordChar(c) == IsLetter(c) \/ IsDigit(c) \/ c = "_"

\* \s of a JavaScript regular expression, for the characters of the model
IsSpace(c) == c \in {" ", "\t", "\n"}

LowerChar(c) ==
    IF IsUpper(c)
    THEN LowerChars[CHOOSE i \in 1..Len(UpperChars) : UpperChars[i] = c]
    ELSE c

\* String.prototype.toLowerCase
ToLower(s) == [i \in 1..Len(s) |-> LowerChar(s[i])]

RECURSIVE TrimStart(_)
TrimStart(s) ==
    IF s # <<>> /\ IsSpace(Head(s)) THEN TrimStart(Tail(s)) ELSE s

RECURSIVE TrimEnd(_)
TrimEnd(s) ==
    IF s # <<>> /\ IsSpace(s[Len(s)]) THEN TrimEnd(SubSeq(s, 1, Len(s) - 1)) ELSE s

\* String.prototype.trim
Trim(s) == TrimEnd(TrimStart(s))

\* String.prototype.includes
Includes(s, sub) ==
    \E i \in 0..(Len(s) - Len(sub)) : SubSeq(s, i + 1, i + Len(sub)) = sub

\* String.prototype.split(' '): consecutive spaces give empty strings
RECURSIVE SplitSpace(_)
SplitSpace(s) ==
    IF \A i \in 1..Len(s) : s[i] # " " THEN <<s>>
    ELSE LET k == CHOOSE i \in 1..Len(s) :
                      s[i] = " " /\ \A j \in 1..(i - 1) : s[j] # " "
         IN <<SubSeq(s, 1, k - 1)>> \o SplitSpace(SubSeq(s, k + 1, Len(s)))

\* what a template literal prints for an undefined value
UndefinedStr == <<"u","n","d","e","f","i","n","e","d">>

\* `${o}` for an optional string
Str(o) == IF IsSome(o) THEN Get(o) ELSE UndefinedStr

\* new Set(str): the distinct characters of a string
CharSet(s) == Range(s)

\* ------------------------------------------------------------------------
\* Songs.  A song is a record with optional title, artist, year,
\* cultural_impact_score and alignment_score, and a source tag.
\* ------------------------------------------------------------------------

AISource == "mistral_ai_generation"

WebSource == "brave_search"

MkSong(t, a, src, y, c) ==
    [title |-> t, artist |-> a, source |-> src, year |-> y,
     cultural_impact_score |-> c, alignment_score |-> None]

\* number of leading characters of title and of artist that make the dedupe key
KeyLen == 20

\* KeyPart as it would be without the cut to 20 characters
KeyPartUncut(o) == IF IsSome(o) THEN Some(Trim(ToLower(Get(o)))) ELSE None

\* song.title?.toLowerCase().trim().slice(0, 20)
KeyPart(o) == IF IsSome(o) THEN Some(Take(Trim(ToLower(Get(o))), KeyLen)) ELSE None

\* the key of removeDuplicateSongsFast: `${title part}-${artist part}`
DedupeKey(song) == Str(KeyPart(song.title)) \o <<"-">> \o Str(KeyPart(song.artist))

RECURSIVE DedupeFrom(_, _)
DedupeFrom(songs, seen) ==
    IF songs = <<>> THEN <<>>
    ELSE LET key == DedupeKey(Head(songs))
         IN IF key \in seen THEN DedupeFrom(Tail(songs), seen)
            ELSE <<Head(songs)>> \o DedupeFrom(Tail(songs), seen \cup {key})

\* removeDuplicateSongsFast as it would be if it forgot a key when it drops a
\* song of that key
RECURSIVE DedupeForgetting(_, _)
DedupeForgetting(songs, seen) ==
    IF songs = <<>> THEN <<>>
    ELSE LET key == DedupeKey(Head(songs))
         IN IF key \in seen THEN DedupeForgetting(Tail(songs), seen \ {key})
            ELSE <<Head(songs)>> \o DedupeForgetting(Tail(songs), seen \cup {key})

removeDuplicateSongsForgetting(songs) == DedupeForgetting(songs, {})

removeDuplicateSongsFast(songs) == DedupeFrom(songs, {})

\* ------------------------------------------------------------------------
\* Basic scoring and pre-filtering (combineAndVerifyAlignmentFast, step 2)
\* ------------------------------------------------------------------------

maxCandidatesForEmbedding == 15

maxConcurrentRequests == 8

YearMin == 1950

YearMax == 2024

ImpactMin == 6

LongerThan2(w) == Len(w) > 2

\* originalPrompt.toLowerCase().split(' ').filter(term => term.length > 2)
SearchTerms(prompt) == SelectSeq(SplitSpace(ToLower(prompt)), LongerThan2)

\* `${song.title} ${song.artist}`.toLowerCase()
SongText(song) == ToLower(Str(song.title) \o <<" ">> \o Str(song.artist))

KeywordMatches(song, prompt) ==
    LET terms == SearchTerms(prompt)
    IN Cardinality({i \in 1..Len(terms) : Includes(SongText(song), terms[i])})

\* !s || s.length < 2 for an optional string
MissingOrShort(o) == ~IsSome(o) \/ Len(Get(o)) < 2

\* BasicScore as it would be if a song missing both its title and its artist
\* were penalised once
BasicScoreOnePenalty(song, prompt) ==
    (IF song.source = AISource THEN 5
     ELSE IF song.source = WebSource THEN 2 ELSE 0)
    + (IF IsSome(song.year) /\ Get(song.year) >= YearMin /\ Get(song.year) <= YearMax
       THEN 2 ELSE 0)
    + (IF IsSome(song.cultural_impact_score) /\ Get(song.cultural_impact_score) >= ImpactMin
       THEN 3 ELSE 0)
    + KeywordMatches(song, prompt)
    - (IF MissingOrShort(song.title) \/ MissingOrShort(song.artist) THEN 3 ELSE 0)

BasicScore(song, prompt) ==
    (IF song.source = AISource THEN 5
     ELSE IF song.source = WebSource THEN 2 ELSE 0)
    + (IF IsSome(song.year) /\ Get(song.year) >= YearMin /\ Get(song.year) <= YearMax
       THEN 2 ELSE 0)
    + (IF IsSome(song.cultural_impact_score) /\ Get(song.cultural_impact_score) >= ImpactMin
       THEN 3 ELSE 0)
    + KeywordMatches(song, prompt)
    - (IF MissingOrShort(song.title) THEN 3 ELSE 0)
    - (IF MissingOrShort(song.artist) THEN 3 ELSE 0)

\* { ...song, basicScore: score }
WithBasicScore(song, prompt) == [basicScore |-> BasicScore(song, prompt)] @@ song

\* stable insertion of x into a list sorted by descending basicScore
RECURSIVE InsertByScore(_, _)
InsertByScore(sorted, x) ==
    IF sorted = <<>> THEN <<x>>
    ELSE IF Head(sorted).basicScore >= x.basicScore
         THEN <<Head(sorted)>> \o InsertByScore(Tail(sorted), x)
         ELSE <<x>> \o sorted

\* .sort((a, b) => b.basicScore - a.basicScore): descending, stable
RECURSIVE SortByBasicScore(_)
SortByBasicScore(s) ==
    IF s = <<>> THEN <<>>
    ELSE InsertByScore(SortByBasicScore(SubSeq(s, 1, Len(s) - 1)), s[Len(s)])

\* the candidates passed on: the top maxCandidatesForEmbedding by basic score
TopCandidates(allSongs, prompt) ==
    Take(SortByBasicScore([i \in 1..Len(allSongs) |-> WithBasicScore(allSongs[i], prompt)]),
         maxCandidatesForEmbedding)

\* ------------------------------------------------------------------------
\* Catalog matching (calculateStringSimilarityFast, findBestTrackMatchFast)
\* A number that need not be an integer is a fraction <<n, d>> with d > 0;
\* <<-1, 0>> is -Infinity, the value of Math.max() of no arguments.
\* ------------------------------------------------------------------------

NegInfinity == <<-1, 0>>

IsFinite(f) == f[2] > 0

\* a < b for fractions, -Infinity below every finite value
FracLess(a, b) ==
    IF ~IsFinite(a) THEN IsFinite(b)
    ELSE IF ~IsFinite(b) THEN FALSE
    ELSE a[1] * b[2] < b[1] * a[2]

\* intersection.size / Math.max(chars1.size, chars2.size), 1 for equal strings,
\* 0 when either string is empty
calculateStringSimilarityFast(str1, str2) ==
    IF str1 = str2 THEN <<1, 1>>
    ELSE IF Len(str1) = 0 \/ Len(str2) = 0 THEN <<0, 1>>
    ELSE LET chars1 == CharSet(ToLower(str1))
             chars2 == CharSet(ToLower(str2))
         IN <<Cardinality(chars1 \cap chars2),
              Max(Cardinality(chars1), Cardinality(chars2))>>

\* Math.max(...sims): -Infinity for an empty list
RECURSIVE MaxFrac(_)
MaxFrac(fs) ==
    IF fs = <<>> THEN NegInfinity
    ELSE LET m == MaxFrac(Tail(fs))
         IN IF FracLess(Head(fs), m) THEN m ELSE Head(fs)

TitleSim(track, song) ==
    calculateStringSimilarityFast(ToLower(track.name), ToLower(Get(song.title)))

ArtistSim(track, song) ==
    MaxFrac([i \in 1..Len(track.artists) |->
                calculateStringSimilarityFast(ToLower(track.artists[i]),
                                              ToLower(Get(song.artist)))])

\* (titleSim * 0.6) + (artistSim * 0.4), as a fraction
CombinedScore(track, song) ==
    LET t == TitleSim(track, song)
        a == ArtistSim(track, song)
    IN IF ~IsFinite(a) THEN NegInfinity
       ELSE <<6 * t[1] * a[2] + 4 * a[1] * t[2], 10 * t[2] * a[2]>>

\* combinedScore > 0.5
GoodMatch(track, song) == FracLess(<<1, 2>>, CombinedScore(track, song))

\* evaluating the scores of this track dereferences an undefined title or artist
MatchThrows(track, song) ==
    ~IsSome(song.title) \/ (track.artists # <<>> /\ ~IsSome(song.artist))

\* findBestTrackMatchFast: [kind |-> "null"], [kind |-> "throw"] or
\* [kind |-> "track", track |-> t]
RECURSIVE FirstDecent(_, _)
FirstDecent(tracks, song) ==
    IF tracks = <<>> THEN [kind |-> "none"]
    ELSE IF MatchThrows(Head(tracks), song) THEN [kind |-> "throw"]
    ELSE IF GoodMatch(Head(tracks), song) THEN [kind |-> "track", track |-> Head(tracks)]
    ELSE FirstDecent(Tail(tracks), song)

\* findBestTrackMatchFast as it would be if it returned null when no track
\* scores above 0.5
findBestTrackMatchAboveHalf(tracks, song) ==
    IF tracks = <<>> THEN [kind |-> "null"]
    ELSE LET r == FirstDecent(tracks, song)
         IN IF r.kind = "none" THEN [kind |-> "null"] ELSE r

findBestTrackMatchFast(tracks, song) ==
    IF tracks = <<>> THEN [kind |-> "null"]
    ELSE LET r == FirstDecent(tracks, song)
         IN IF r.kind = "none" THEN [kind |-> "track", track |-> tracks[1]] ELSE r

\* ------------------------------------------------------------------------
\* Prompt heuristics of the analyzer's fallback
\* ------------------------------------------------------------------------

DigitValue(c) == (CHOOSE i \in 1..Len(Digits) : Digits[i] = c) - 1

\* parseInt of a run of decimal digits
RECURSIVE ParseInt(_)
ParseInt(ds) ==
    IF ds = <<>> THEN 0
    ELSE 10 * ParseInt(SubSeq(ds, 1, Len(ds) - 1)) + DigitValue(ds[Len(ds)])

\* the end of the longest run of characters of class C starting at position i
\* (i - 1 when s[i] is not in the class)
RECURSIVE RunEnd(_, _, _)
RunEnd(s, i, C) ==
    IF i <= Len(s) /\ s[i] \in C THEN RunEnd(s, i + 1, C) ELSE i - 1

CharsOf(s) == Range(s)

DigitClass == Range(Digits)

LetterClass == Range(UpperChars) \cup Range(LowerChars)

SpaceClass == {" ", "\t", "\n"}

\* /\b(\d+)\b/ matches at i: a whole run of digits with no word character
\* on either side
NumberMatchAt(s, i) ==
    /\ IsDigit(s[i])
    /\ (i = 1 \/ ~IsWordChar(s[i - 1]))
    /\ LET e == RunEnd(s, i, DigitClass)
       IN e = Len(s) \/ ~IsWordChar(s[e + 1])

\* extractNumberFromPrompt: the first such run as an integer, or null
extractNumberFromPrompt(prompt) ==
    LET starts == {i \in 1..Len(prompt) : NumberMatchAt(prompt, i)}
    IN IF starts = {} THEN None
       ELSE LET i == CHOOSE k \in starts : \A j \in starts : k <= j
            IN Some(ParseInt(SubSeq(prompt, i, RunEnd(prompt, i, DigitClass))))

\* /<word> ([A-Za-z\s]+)/i : the first place where the literal (compared
\* without case) is followed by a letter or white space; the group is the
\* longest run of letters and white space from there
AfterLiteral(s, lit) ==
    LET n == Len(lit)
        hits == {i \in 1..(Len(s) - n) :
                    /\ ToLower(SubSeq(s, i, i + n - 1)) = lit
                    /\ s[i + n] \in LetterClass \cup SpaceClass}
    IN IF hits = {} THEN None
       ELSE LET i == CHOOSE k \in hits : \A j \in hits : k <= j
            IN Some(SubSeq(s, i + n, RunEnd(s, i + n, LetterClass \cup SpaceClass)))

\* /([A-Z][a-z]+\s[A-Z][a-z]+)\s+songs/i at i: two runs of at least two
\* letters split by one white-space character, then white space, then "songs"
TwoWordsAt(s, i) ==
    LET e1 == RunEnd(s, i, LetterClass)
        e2 == RunEnd(s, e1 + 2, LetterClass)
        e3 == RunEnd(s, e2 + 1, SpaceClass)
    IN IF /\ e1 >= i + 1
          /\ e1 + 1 <= Len(s) /\ s[e1 + 1] \in SpaceClass
          /\ e2 >= e1 + 3
          /\ e3 >= e2 + 1
          /\ e3 + 5 <= Len(s)
          /\ ToLower(SubSeq(s, e3 + 1, e3 + 5)) = <<"s","o","n","g","s">>
       THEN Some(SubSeq(s, i, e2))
       ELSE None

TwoWordsBeforeSongs(s) ==
    LET hits == {i \in 1..Len(s) : IsSome(TwoWordsAt(s, i))}
    IN IF hits = {} THEN None
       ELSE TwoWordsAt(s, CHOOSE k \in hits : \A j \in hits : k <= j)

\* match && match[1] && match[1].length > 3
LongEnough(m) == IsSome(m) /\ Len(Get(m)) > 3

\* extractArtistFromPrompt: the three patterns in order, the first whose
\* group is longer than 3 characters, trimmed; else null
extractArtistFromPrompt(prompt) ==
    LET m1 == AfterLiteral(prompt, <<"b","y"," ">>)
        m2 == AfterLiteral(prompt, <<"f","r","o","m"," ">>)
        m3 == TwoWordsBeforeSongs(prompt)
    IN IF LongEnough(m1) THEN Some(Trim(Get(m1)))
       ELSE IF LongEnough(m2) THEN Some(Trim(Get(m2)))
       ELSE IF LongEnough(m3) THEN Some(Trim(Get(m3)))
       ELSE None

DefaultCount == 10

MaxTargetCount == 15

MinCountCap == 3

MaxKeywords == 5

\* FallbackCount as it would be if a 0 found in the prompt were kept
FallbackCountKeepsZero(prompt) ==
    LET n == extractNumberFromPrompt(prompt)
    IN IF IsSome(n) THEN Get(n) ELSE DefaultCount

\* extractNumberFromPrompt(prompt) || 10
FallbackCount(prompt) ==
    LET n == extractNumberFromPrompt(prompt)
    IN IF IsSome(n) /\ Get(n) # 0 THEN Get(n) ELSE DefaultCount

\* the object the analyzer returns when the analysis fails
FallbackAnalysis(prompt) ==
    [constraints |-> Some([targetCount |-> Some(Min(FallbackCount(prompt), MaxTargetCount)),
                           minCount |-> Some(Min(FallbackCount(prompt), MinCountCap)),
                           specificArtist |-> extractArtistFromPrompt(prompt)]),
     searchQueries |-> Some(<<prompt \o <<" ","s","o","n","g","s"," ","b","e","s","t">>,
                              prompt \o <<" ","m","u","s","i","c"," ","t","o","p">> >>),
     refinedPrompt |-> Some(prompt),
     keywords |-> Take(SelectSeq(SplitSpace(prompt), LongerThan2), MaxKeywords),
     originalEmbedding |-> None]

\* ------------------------------------------------------------------------
\* Web-search extraction (extractSongsFromBraveResultsFast).
\* A search result is [m1, m2, year]: the matches text.matchAll gives for the
\* quoted-title pattern and for the "X - Y" pattern, each match a record of
\* its two groups [g1, g2], and the year extractYear finds in the text.
\* ------------------------------------------------------------------------

MaxResultsExamined == 5

MaxMatchesPerPattern == 2

SongsPerResultStop == 3

MaxSongsPerQuery == 8

\* match[1] && match[2] && match[1].length > 2 && match[2].length > 2
MatchKept(m) == Len(m.g1) > 2 /\ Len(m.g2) > 2

SongOfMatch(m, year) == MkSong(Some(Trim(m.g1)), Some(Trim(m.g2)), WebSource, year, None)

\* the songs one pattern pushes for one result
PatternSongs(matches, year) ==
    LET kept == SelectSeq(Take(matches, MaxMatchesPerPattern), MatchKept)
    IN [i \in 1..Len(kept) |-> SongOfMatch(kept[i], year)]

\* the loop over the two patterns for one result, songs being the array
\* shared by all results: the second pattern is skipped when the array
\* holds 3 songs or more after the first
AfterResult(songs, result) ==
    LET s1 == songs \o PatternSongs(result.m1, result.year)
    IN IF Len(s1) >= SongsPerResultStop THEN s1
       ELSE s1 \o PatternSongs(result.m2, result.year)

RECURSIVE ExtractFrom(_, _)
ExtractFrom(results, songs) ==
    IF results = <<>> THEN songs
    ELSE ExtractFrom(Tail(results), AfterResult(songs, Head(results)))

\* data is an option: None when data.web or data.web.results is missing
extractSongsFromBraveResultsFast(data) ==
    IF ~IsSome(data) THEN <<>>
    ELSE Take(ExtractFrom(Take(Get(data), MaxResultsExamined), <<>>), MaxSongsPerQuery)

\* ------------------------------------------------------------------------
\* Semantic re-ranking (rankSongsBySementicSimilarityFast, cosineSimilarity).
\* Embedding vectors are pairs of integers, not both zero.  Two cosines
\* against the same prompt vector are compared exactly: cos = dot / (|p| |v|),
\* so with d = dot and n = |v|^2, the sign of d and d^2 / n order them.
\* ------------------------------------------------------------------------

Dot(u, v) == u[1] * v[1] + u[2] * v[2]

Sign(x) == IF x > 0 THEN 1 ELSE IF x < 0 THEN -1 ELSE 0

\* cosineSimilarity(p, u) < cosineSimilarity(p, v)
CosLess(p, u, v) ==
    LET du == Dot(p, u)
        dv == Dot(p, v)
        a == Sign(du) * du * du * Dot(v, v)
        b == Sign(dv) * dv * dv * Dot(u, u)
    IN a < b

\* stable insertion of x into a list sorted by descending similarity
RECURSIVE InsertBySimilarity(_, _, _)
InsertBySimilarity(sorted, x, p) ==
    IF sorted = <<>> THEN <<x>>
    ELSE IF ~CosLess(p, Head(sorted).embedding, x.embedding)
         THEN <<Head(sorted)>> \o InsertBySimilarity(Tail(sorted), x, p)
         ELSE <<x>> \o sorted

\* .sort((a, b) => b.similarity_score - a.similarity_score): descending, stable
RECURSIVE SortBySimilarity(_, _)
SortBySimilarity(s, p) ==
    IF s = <<>> THEN <<>>
    ELSE InsertBySimilarity(SortBySimilarity(SubSeq(s, 1, Len(s) - 1), p), s[Len(s)], p)

\* rankSongsBySementicSimilarityFast as it would be if its catch returned no
\* songs
rankSongsEmptyOnFailure(filteredSongs, originalEmbedding, embeddingData) ==
    IF ~IsSome(embeddingData) \/ Len(Get(embeddingData)) < Len(filteredSongs)
    THEN <<>>
    ELSE LET withVec == [i \in 1..Len(filteredSongs) |->
                            [song |-> filteredSongs[i], embedding |-> Get(embeddingData)[i]]]
             sorted == SortBySimilarity(withVec, originalEmbedding)
         IN [i \in 1..Len(sorted) |-> sorted[i].song]

\* rankSongsBySementicSimilarityFast, given the outcome of the embedding call:
\* embeddingData is None when the call failed, else the vectors returned.
\* Reading embeddingData[index].embedding of a missing entry throws, and the
\* catch returns the songs as they came.
rankSongsBySementicSimilarityFast(filteredSongs, originalEmbedding, embeddingData) ==
    IF ~IsSome(embeddingData) \/ Len(Get(embeddingData)) < Len(filteredSongs)
    THEN filteredSongs
    ELSE LET withVec == [i \in 1..Len(filteredSongs) |->
                            [song |-> filteredSongs[i], embedding |-> Get(embeddingData)[i]]]
             sorted == SortBySimilarity(withVec, originalEmbedding)
         IN [i \in 1..Len(sorted) |-> sorted[i].song]

\* ------------------------------------------------------------------------
\* Inputs: the prompts and what the external services may answer.  Each pool
\* is a sequence, of which the model uses a prefix.
\* ------------------------------------------------------------------------

NumPrompts == 2

NumAnalyses == 4

AllPrompts ==
    << <<"2"," ","s","a","d"," ","h","i","t","s">>,
       <<"5"," ","l","o","v","e"," ","s","o","n","g","s"," ","b","y"," ","A","b","b","a">>,
       <<"c","h","i","l","l"," ","m","i","x">>,
       <<"2","0"," ","r","o","c","k"," ","s","o","n","g","s">> >>

Prompts == {AllPrompts[i] : i \in 1..Min(NumPrompts, Len(AllPrompts))}

MkConstraints(t, m, a) == [targetCount |-> t, minCount |-> m, specificArtist |-> a]

\* what the analysis completion may hold when it parses as JSON: constraints
\* and searchQueries as the generative model chose to fill them, or not
AllAnalyses ==
    << [constraints |-> Some(MkConstraints(Some(12), Some(3), None)),
        searchQueries |-> Some(<< <<"s","a","d"," ","h","i","t","s">>, <<"s","a","d"," ","s","o","n","g","s">> >>),
        refinedPrompt |-> Some(<<"s","a","d"," ","h","i","t","s">>),
        keywords |-> << <<"s","a","d">> >>],
       [constraints |-> Some(MkConstraints(None, None, Some(<<"A","b","b","a">>))),
        searchQueries |-> Some(<< <<"a","b","b","a">> >>),
        refinedPrompt |-> Some(<<"a","b","b","a">>),
        keywords |-> << <<"a","b","b","a">> >>],
       [constraints |-> None,
        searchQueries |-> None,
        refinedPrompt |-> None,
        keywords |-> <<>>],
       [constraints |-> Some(MkConstraints(Some(16), Some(3), None)),
        searchQueries |-> Some(<< <<"h","i","t","s">>, <<"t","o","p">>, <<"b","e","s","t">> >>),
        refinedPrompt |-> Some(<<"h","i","t","s">>),
        keywords |-> << <<"h","i","t","s">> >>],
       [constraints |-> Some(MkConstraints(Some(1), None, None)),
        searchQueries |-> Some(<<>>),
        refinedPrompt |-> Some(<<"o","n","e">>),
        keywords |-> <<>>] >>

Analyses == {AllAnalyses[i] : i \in 1..Min(NumAnalyses, Len(AllAnalyses))}

\* the embedding of the prompt, when the embeddings call returns one
PromptVector == <<1, 0>>

\* ------------------------------------------------------------------------
\* State
\* ------------------------------------------------------------------------

VARIABLES
    prompt,          \* the prompt of the request
    pc,              \* where generateClassicRecommendations is
    returned,        \* what it returned: None until it returns, then Some(tracks)
    caught,          \* the error its catch block caught, "" when none
    compCall,        \* the analyzer's completion call: idle, pending, ok, failed
    embCall,         \* the analyzer's embeddings call: idle, pending, ok, failed
    analyzer,        \* analyzeUserPromptFast: idle, waiting, normal, fallback
    analysisResult   \* what the analyzer returned (None before)

analyzerVars == <<compCall, embCall, analyzer, analysisResult>>

\* the normal result of the analyzer: { ...analysis, originalEmbedding, ... }
NormalAnalysis(analysis, vector) ==
    [constraints |-> analysis.constraints,
     searchQueries |-> analysis.searchQueries,
     refinedPrompt |-> analysis.refinedPrompt,
     keywords |-> analysis.keywords,
     originalEmbedding |-> Some(vector)]

VARIABLES
    webCalls,        \* the per-query search calls: a sequence of [st, songs]
    webFetch,        \* searchWithBraveAPIFast: idle, waiting, returned
    webResults,      \* what it returned
    genCall,         \* the generative fetcher's completion call: idle, pending,
                     \* ok, nonarray, garbage, failed
    genFetch,        \* generateAIRecommendationsFast: idle, waiting, returned
    aiResults        \* what it returned

fetchVars == <<webCalls, webFetch, webResults, genCall, genFetch, aiResults>>

VARIABLES
    fusion,          \* combineAndVerifyAlignmentFast: idle, ranking, verifying,
                     \* returned, threw
    allSongs,        \* its merged and deduplicated list
    rankedSongs,     \* the candidates in the order they go to verification
    rankCall,        \* the candidates' embeddings call: idle, pending, ok, short, failed
    verifyCall,      \* the verification call: idle, pending, ok, nonarray, garbage, failed
    verifySent,      \* the songs written into the verification request
    alignedSongs     \* what the fusion engine returned

fusionVars == <<fusion, allSongs, rankedSongs, rankCall, verifyCall, verifySent, alignedSongs>>

VARIABLES
    resolver,        \* searchTracksOnSpotifyFast: idle, batch, delay, returned
    songs,           \* the songs it was called with
    catalog,         \* which catalog answers the searches of this request
    batchStart,      \* i of its for loop
    tasks,           \* the lookups of the current batch: a sequence of [st, out]
    results,         \* its results array
    observe,         \* whether the order of completion is recorded
    completed        \* the tasks of the current batch in the order they settled

resolverVars == <<resolver, songs, catalog, batchStart, tasks, results, observe, completed>>

entryVars == <<prompt, pc, returned, caught>>

vars == <<entryVars, analyzerVars, fetchVars, fusionVars, resolverVars>>

\* ------------------------------------------------------------------------
\* What the web search, the generative fetcher, the embeddings of the
\* candidates, the verifier and the catalog may answer
\* ------------------------------------------------------------------------

NumWebDatas == 2

NumGenLists == 2

MkMatch(a, b) == [g1 |-> a, g2 |-> b]

MkResult(a, b, y) == [m1 |-> a, m2 |-> b, year |-> y]

\* the bodies of successful search responses: None when data.web is missing
AllWebDatas ==
    << Some(<< MkResult(<< MkMatch(<<"W","a","t","e","r","l","o","o">>, <<"A","B","B","A">>) >>, <<>>, Some(1974)),
               MkResult(<<>>, << MkMatch(<<"S","a","d"," ","S","o","n","g"," ">>, <<" ","L","o","u"," ","R","e","e","d">>),
                                 MkMatch(<<"a","b">>, <<"c","d">>) >>, None) >>),
       None,
       Some(<< MkResult(<< MkMatch(<<"H","u","r","t">>, <<"J","o","h","n","n","y"," ","C","a","s","h">>) >>, <<>>, Some(2002)) >>) >>

WebDatas == {AllWebDatas[i] : i \in 1..Min(NumWebDatas, Len(AllWebDatas))}

\* the arrays the generative fetcher's completion may parse to
AllGenLists ==
    << << MkSong(Some(<<"W","a","t","e","r","l","o","o">>), Some(<<"A","b","b","a">>), "", Some(1974), Some(9)),
          MkSong(Some(<<"H","u","r","t">>), Some(<<"J","o","h","n","n","y"," ","C","a","s","h">>), "", Some(2002), Some(7)),
          MkSong(None, Some(<<"x">>), "", None, None) >>,
       << MkSong(Some(<<"S","a","d"," ","H","i","t","s">>), Some(<<"A","b","b","a">>), "", None, Some(3)) >>,
       << MkSong(Some(<<"L","o","v","e">>), Some(<<>>), "", Some(1930), None),
          MkSong(Some(<<"H","e","l","p">>), Some(<<"B","e","a","t","l","e","s">>), "", Some(1965), Some(6)) >> >>

GenLists == {AllGenLists[i] : i \in 1..Min(NumGenLists, Len(AllGenLists))}

\* ------------------------------------------------------------------------
\* Scheduling.  The code runs on one event loop: when an awaited call
\* settles, the continuations it makes runnable run before the next call
\* settles.  A continuation is a step of the model whose guard is one of the
\* predicates below; a call settles only when none of them holds.
\* ------------------------------------------------------------------------

Settled(st) == st \notin {"idle", "pending"}

\* AnalyzerJoinReady as it would be for a join that waits for both calls
AnalyzerJoinWaitsForAll ==
    /\ analyzer = "waiting"
    /\ compCall \in {"ok", "failed"}
    /\ embCall \in {"ok", "failed"}

\* Promise.all([callMistralAI, getMistralEmbeddingsBatch]) has an outcome:
\* it rejects with the first rejection, it fulfils when both have fulfilled
AnalyzerJoinReady ==
    /\ analyzer = "waiting"
    /\ \/ compCall = "failed"
       \/ embCall = "failed"
       \/ compCall = "ok" /\ embCall = "ok"

FetchersCanStart == pc = "awaitAnalysis" /\ analyzer \in {"normal", "fallback"}

\* Promise.all(searchPromises): no per-query function ever rejects
WebJoinReady ==
    webFetch = "waiting" /\ \A i \in 1..Len(webCalls) : webCalls[i].st # "pending"

\* FusionCanStart as it would be if the two fetchers were raced
FusionCanStartAfterEither ==
    pc = "awaitFetchers" /\ (webFetch = "returned" \/ genFetch = "returned")

FusionCanStart == pc = "awaitFetchers" /\ webFetch = "returned" /\ genFetch = "returned"

FusionSettled == pc = "awaitFusion" /\ fusion \in {"returned", "threw"}

BatchJoinReady ==
    resolver = "batch" /\ \A k \in 1..Len(tasks) : tasks[k].st = "done"

ResolverSettled == pc = "awaitResolver" /\ resolver = "returned"

ContinuationRunnable ==
    \/ pc \in {"start", "resolverCall"}
    \/ AnalyzerJoinReady
    \/ FetchersCanStart
    \/ WebJoinReady
    \/ FusionCanStart
    \/ FusionSettled
    \/ BatchJoinReady
    \/ ResolverSettled

\* ------------------------------------------------------------------------
\* generateClassicRecommendations, step 1: the analyzer
\* ------------------------------------------------------------------------

\* the entry point calls analyzeUserPromptFast, which issues its two calls
Start ==
    /\ pc = "start"
    /\ pc' = "awaitAnalysis"
    /\ analyzer' = "waiting"
    /\ compCall' = "pending"
    /\ embCall' = "pending"
    /\ UNCHANGED <<prompt, returned, caught, analysisResult, fetchVars, fusionVars, resolverVars>>

\* callMistralAI settles: it returns the content, or throws on a non-OK
\* response, a timeout or a malformed body
CompletionSettles ==
    /\ compCall = "pending"
    /\ ~ContinuationRunnable
    /\ \E o \in {"ok", "failed"} : compCall' = o
    /\ UNCHANGED <<entryVars, embCall, analyzer, analysisResult, fetchVars, fusionVars, resolverVars>>

\* getMistralEmbeddingsBatch settles
EmbeddingSettles ==
    /\ embCall = "pending"
    /\ ~ContinuationRunnable
    /\ \E o \in {"ok", "failed"} : embCall' = o
    /\ UNCHANGED <<entryVars, compCall, analyzer, analysisResult, fetchVars, fusionVars, resolverVars>>

\* the join rejected, JSON.parse threw or embeddingData[0] is undefined:
\* the catch block returns the fallback
AnalyzerFallback ==
    /\ AnalyzerJoinReady
    /\ analyzer' = "fallback"
    /\ analysisResult' = Some(FallbackAnalysis(prompt))
    /\ UNCHANGED <<entryVars, compCall, embCall, fetchVars, fusionVars, resolverVars>>

\* both calls fulfilled, the content parses and an embedding came back
AnalyzerNormal ==
    /\ AnalyzerJoinReady
    /\ compCall = "ok" /\ embCall = "ok"
    /\ \E analysis \in Analyses :
           analysisResult' = Some(NormalAnalysis(analysis, PromptVector))
    /\ analyzer' = "normal"
    /\ UNCHANGED <<entryVars, compCall, embCall, fetchVars, fusionVars, resolverVars>>

\* ------------------------------------------------------------------------
\* Steps 2 and 3: the two source fetchers
\* ------------------------------------------------------------------------

PendingCall == [st |-> "pending", songs |-> <<>>]

\* searchQueries.slice(0, 2)
MaxQueries == 2

\* the generative fetcher keeps constraints.targetCount || 15 songs
GenDefaultCount == 15

TheAnalysis == Get(analysisResult)

\* constraints.targetCount || dflt, with a constraints object at hand
TargetOr(constraints, dflt) ==
    IF IsSome(constraints.targetCount) /\ Get(constraints.targetCount) # 0
    THEN Get(constraints.targetCount) ELSE dflt

\* searchWithBraveAPIFast up to its await: one call for each of the first two
\* queries; searchQueries.slice of undefined throws into the catch
WebStart(queries) ==
    IF ~IsSome(queries)
    THEN /\ webFetch' = "returned"
         /\ webCalls' = <<>>
    ELSE /\ webFetch' = "waiting"
         /\ webCalls' = [i \in 1..Min(MaxQueries, Len(Get(queries))) |-> PendingCall]

\* generateAIRecommendationsFast up to its await: reading
\* constraints.targetCount of undefined throws into the catch
GenStart(constraints) ==
    IF ~IsSome(constraints)
    THEN genFetch' = "returned" /\ genCall' = "idle"
    ELSE genFetch' = "waiting" /\ genCall' = "pending"

FetchersStart ==
    /\ FetchersCanStart
    /\ pc' = "awaitFetchers"
    /\ WebStart(TheAnalysis.searchQueries)
    /\ GenStart(TheAnalysis.constraints)
    /\ UNCHANGED <<prompt, returned, caught, analyzerVars, webResults, aiResults,
                   fusionVars, resolverVars>>

\* one search call settles, and its function returns: [] for a rejected fetch,
\* a timeout or a non-OK status, else what extraction finds in the body
WebCallSettles(i) ==
    /\ i \in 1..Len(webCalls)
    /\ webCalls[i].st = "pending"
    /\ ~ContinuationRunnable
    /\ \/ \E o \in {"failed", "notok"} :
              webCalls' = [webCalls EXCEPT ![i] = [st |-> o, songs |-> <<>>]]
       \/ \E data \in WebDatas :
              webCalls' = [webCalls EXCEPT
                              ![i] = [st |-> "ok",
                                      songs |-> extractSongsFromBraveResultsFast(data)]]
    /\ UNCHANGED <<entryVars, analyzerVars, webFetch, webResults, genCall, genFetch,
                   aiResults, fusionVars, resolverVars>>

\* WebReturns as it would be if one failed search call emptied the fetcher's
\* result
WebReturnsNothingAfterFailure ==
    /\ WebJoinReady
    /\ webFetch' = "returned"
    /\ webResults' =
           IF \E i \in 1..Len(webCalls) : webCalls[i].st \in {"failed", "notok"}
           THEN <<>>
           ELSE removeDuplicateSongsFast(Flat([i \in 1..Len(webCalls) |-> webCalls[i].songs]))
    /\ UNCHANGED <<entryVars, analyzerVars, webCalls, genCall, genFetch, aiResults,
                   fusionVars, resolverVars>>

\* Promise.all(searchPromises) fulfils: flatten, deduplicate, return
WebReturns ==
    /\ WebJoinReady
    /\ webFetch' = "returned"
    /\ webResults' =
           removeDuplicateSongsFast(Flat([i \in 1..Len(webCalls) |-> webCalls[i].songs]))
    /\ UNCHANGED <<entryVars, analyzerVars, webCalls, genCall, genFetch, aiResults,
                   fusionVars, resolverVars>>

\* parsed.slice(0, constraints.targetCount || 15).map(song => ({...song, source}))
TagGenerated(list, constraints) ==
    LET cut == SliceTo(list, TargetOr(constraints, GenDefaultCount))
    IN [i \in 1..Len(cut) |-> [cut[i] EXCEPT !.source = AISource]]

\* GenCallSettles as it would be if generateAIRecommendationsFast had no
\* catch: a failed call or an unparsable body leaves it rejected
GenCallSettlesUncaught ==
    /\ genCall = "pending"
    /\ ~ContinuationRunnable
    /\ \/ /\ \E o \in {"failed", "garbage"} : genCall' = o
          /\ genFetch' = "threw"
          /\ aiResults' = <<>>
       \/ /\ genCall' = "nonarray"
          /\ genFetch' = "returned"
          /\ aiResults' = <<>>
       \/ /\ genCall' = "ok"
          /\ genFetch' = "returned"
          /\ \E list \in GenLists :
                 aiResults' = TagGenerated(list, Get(TheAnalysis.constraints))
    /\ UNCHANGED <<entryVars, analyzerVars, webCalls, webFetch, webResults,
                   fusionVars, resolverVars>>

\* the generative fetcher's call settles, and the fetcher returns
GenCallSettles ==
    /\ genCall = "pending"
    /\ ~ContinuationRunnable
    /\ \/ /\ \E o \in {"failed", "garbage", "nonarray"} : genCall' = o
          /\ aiResults' = <<>>
       \/ /\ genCall' = "ok"
          /\ \E list \in GenLists :
                 aiResults' = TagGenerated(list, Get(TheAnalysis.constraints))
    /\ genFetch' = "returned"
    /\ UNCHANGED <<entryVars, analyzerVars, webCalls, webFetch, webResults,
                   fusionVars, resolverVars>>

\* ------------------------------------------------------------------------
\* Step 4: the fusion engine (combineAndVerifyAlignmentFast)
\* ------------------------------------------------------------------------

NumVerifierAnswers == 3

\* length of the list a verifier that makes songs up answers with
VerifiedLong == 17

\* SPEED_CONFIG.skipSemanticSimilarity
skipSemanticSimilarity == FALSE

\* rankedSongs.slice(0, 10) goes into the verification request
MaxSentToVerifier == 10

\* filtered.slice(0, constraints.targetCount || 12)
FusionDefaultCount == 12

\* alignment_score below this is dropped
AlignmentMin == 6

\* the vectors the embeddings call returns for n candidates: against the
\* prompt vector <<1, 0>> a later candidate is more similar
CandidateVectors(n) == [i \in 1..n |-> <<i, 1>>]

Cycle(s, i) == s[((i - 1) % Len(s)) + 1]

\* the verifier returns the songs it was sent with these scores, in turn
Echo(sent, scores) ==
    [i \in 1..Len(sent) |-> [sent[i] EXCEPT !.alignment_score = Cycle(scores, i)]]

\* a song the verifier made up
MadeUpSong(i) ==
    [MkSong(Some(<<"N", "o", Cycle(Digits, i)>>), Some(<<"A","b","b","a">>), AISource, None, None)
        EXCEPT !.alignment_score = Some(9)]

\* the arrays the verification response may parse to, for the songs sent
AllVerifierAnswers(sent) ==
    << Echo(sent, <<Some(8)>>),
       Echo(sent, <<Some(5), Some(8), None>>),
       [i \in 1..VerifiedLong |-> MadeUpSong(i)] >>

VerifierAnswers(sent) ==
    {AllVerifierAnswers(sent)[i] : i \in 1..Min(NumVerifierAnswers, 3)}

\* PassesFilter as it would be without the artist check
PassesFilterScoreOnly(song, constraints) ==
    /\ IsSome(song.alignment_score)
    /\ Get(song.alignment_score) >= AlignmentMin

\* the client-side filter of the verified songs
PassesFilter(song, constraints) ==
    /\ IsSome(song.alignment_score)
    /\ Get(song.alignment_score) >= AlignmentMin
    /\ \/ ~IsSome(constraints.specificArtist)
       \/ Get(constraints.specificArtist) = <<>>
       \/ LET requestedArtist == ToLower(Get(constraints.specificArtist))
              songArtist == IF IsSome(song.artist) THEN ToLower(Get(song.artist)) ELSE <<>>
          IN Includes(songArtist, requestedArtist) \/ Includes(requestedArtist, songArtist)

FilterVerified(verified, constraints) ==
    LET Keep(song) == PassesFilter(song, constraints)
    IN SelectSeq(verified, Keep)

\* song.title && song.artist
HasTitleAndArtist(song) ==
    /\ IsSome(song.title) /\ Get(song.title) # <<>>
    /\ IsSome(song.artist) /\ Get(song.artist) # <<>>

\* what the catch block is written to return
FallbackSongs(merged, constraints) ==
    SliceTo(SelectSeq(merged, HasTitleAndArtist), TargetOr(constraints, FusionDefaultCount))

\* allSongs is declared by const inside the try block (line 340); the catch
\* block (lines 418-424) is outside that block, where the name is not bound:
\* evaluating it throws a ReferenceError out of the function
AllSongsBoundInCatch == FALSE

\* the synchronous part: merge, deduplicate, score, cut, and issue the first call
FusionStart ==
    /\ FusionCanStart
    /\ pc' = "awaitFusion"
    /\ LET merged == removeDuplicateSongsFast(webResults \o aiResults)
           top == TopCandidates(merged, prompt)
       IN /\ allSongs' = merged
          /\ IF merged = <<>>
             THEN /\ fusion' = "returned"
                  /\ alignedSongs' = Some(<<>>)
                  /\ UNCHANGED <<rankedSongs, rankCall, verifyCall, verifySent>>
             ELSE /\ rankedSongs' = top
                  /\ alignedSongs' = None
                  /\ IF ~skipSemanticSimilarity /\ IsSome(TheAnalysis.originalEmbedding)
                     THEN /\ fusion' = "ranking"
                          /\ rankCall' = "pending"
                          /\ UNCHANGED <<verifyCall, verifySent>>
                     ELSE /\ fusion' = "verifying"
                          /\ verifyCall' = "pending"
                          /\ verifySent' = Take(top, MaxSentToVerifier)
                          /\ UNCHANGED rankCall
    /\ UNCHANGED <<prompt, returned, caught, analyzerVars, fetchVars, resolverVars>>

\* the embeddings call for the candidates settles; the ranking returns and
\* the verification call is issued
RankCallSettles ==
    /\ rankCall = "pending"
    /\ ~ContinuationRunnable
    /\ \E o \in {"ok", "short", "failed"} :
           /\ rankCall' = o
           /\ LET n == Len(rankedSongs)
                  data == IF o = "failed" THEN None
                          ELSE IF o = "short" THEN Some(CandidateVectors(n - 1))
                          ELSE Some(CandidateVectors(n))
                  ranked == rankSongsBySementicSimilarityFast(
                                rankedSongs, Get(TheAnalysis.originalEmbedding), data)
              IN /\ rankedSongs' = ranked
                 /\ verifySent' = Take(ranked, MaxSentToVerifier)
    /\ fusion' = "verifying"
    /\ verifyCall' = "pending"
    /\ UNCHANGED <<entryVars, analyzerVars, fetchVars, allSongs, alignedSongs, resolverVars>>

\* the catch block: it returns FallbackSongs when it can evaluate it, and
\* throws when allSongs is not bound or constraints is undefined
FusionCatch ==
    IF AllSongsBoundInCatch /\ IsSome(TheAnalysis.constraints)
    THEN /\ fusion' = "returned"
         /\ alignedSongs' = Some(FallbackSongs(allSongs, Get(TheAnalysis.constraints)))
    ELSE /\ fusion' = "threw"
         /\ alignedSongs' = None

\* what the function does once the verification response parsed, to an array
\* (verified) or to something else (None); constraints.targetCount of an
\* undefined constraints throws into the catch
FusionFinish(verified) ==
    IF ~IsSome(TheAnalysis.constraints)
    THEN FusionCatch
    ELSE LET constraints == Get(TheAnalysis.constraints)
             filtered == IF IsSome(verified)
                         THEN FilterVerified(Get(verified), constraints)
                         ELSE <<>>
         IN /\ fusion' = "returned"
            /\ alignedSongs' =
                   Some(SliceTo(filtered, TargetOr(constraints, FusionDefaultCount)))

VerifyCallSettles ==
    /\ verifyCall = "pending"
    /\ ~ContinuationRunnable
    /\ \/ /\ \E o \in {"failed", "garbage"} : verifyCall' = o
          /\ FusionCatch
       \/ /\ verifyCall' = "nonarray"
          /\ FusionFinish(None)
       \/ /\ verifyCall' = "ok"
          /\ \E verified \in VerifierAnswers(verifySent) : FusionFinish(Some(verified))
    /\ UNCHANGED <<entryVars, analyzerVars, fetchVars, allSongs, rankedSongs, rankCall,
                   verifySent, resolverVars>>

\* ------------------------------------------------------------------------
\* Step 5: the catalog resolver (searchTracksOnSpotifyFast)
\* ------------------------------------------------------------------------

NumCatalogs == 2

\* the resolver is handed alignedSongs.slice(0, Math.min(targetCount, 15))
MaxResolved == 15

\* a track that has nothing of a song of the model in its name or artists
PoorTrack == [name |-> <<"0">>, artists |-> << <<"1">> >>]

\* the track of the song itself
GoodTrack(song) == [name |-> Str(song.title), artists |-> <<Str(song.artist)>>]

\* a track of that title with an empty artist list
BareTrack(song) == [name |-> Str(song.title), artists |-> <<>>]

\* tracks.items of a search response of a given kind, for a song
Items(kind, song) ==
    CASE kind = "good" -> <<GoodTrack(song)>>
      [] kind = "poor" -> <<PoorTrack>>
      [] kind = "poorgood" -> <<PoorTrack, GoodTrack(song)>>
      [] kind = "bare" -> <<BareTrack(song)>>
      [] OTHER -> <<>>

\* how a catalog answers the strict and the loose query of a song: "error"
\* is a search that throws, "empty" one that returns no track
Profiles ==
    << [strict |-> "poor", loose |-> "good"],
       [strict |-> "empty", loose |-> "good"],
       [strict |-> "good", loose |-> "empty"],
       [strict |-> "empty", loose |-> "empty"],
       [strict |-> "error", loose |-> "good"],
       [strict |-> "empty", loose |-> "poor"],
       [strict |-> "poorgood", loose |-> "empty"],
       [strict |-> "empty", loose |-> "error"],
       [strict |-> "bare", loose |-> "good"] >>

\* catalog c answers the queries of the i-th song by profile i + c
Catalogs == 0..(NumCatalogs - 1)

ProfileOf(c, i) == Cycle(Profiles, i + c)

CatalogAnswer(c, i, strategy) ==
    IF strategy = "strict" THEN ProfileOf(c, i).strict ELSE ProfileOf(c, i).loose

IdleTask == [st |-> "strict", issued |-> 1, out |-> None]

\* BatchTasks as it would be if every remaining song were looked up at once
BatchTasksAllRemaining(list, i) ==
    [k \in 1..(Len(list) - i) |-> IdleTask]

\* the tasks of the batch starting after song i: each has issued its strict query
BatchTasks(list, i) ==
    [k \in 1..Min(maxConcurrentRequests, Len(list) - i) |-> IdleTask]

\* bestMatch with classicMetadata = { ...song, search_strategy: query }
Resolved(track, song, strategy) ==
    [track |-> track, classicMetadata |-> [song |-> song, search_strategy |-> strategy]]

\* TaskAfterAnswer as it would be without the try/catch around a lookup: a
\* search that throws, or a match that throws, leaves the lookup rejected
TaskAfterAnswerUncaught(task, song, kind) ==
    IF kind = "error"
    THEN [task EXCEPT !.st = "threw"]
    ELSE LET bestMatch == findBestTrackMatchFast(Items(kind, song), song)
         IN CASE bestMatch.kind = "throw" -> [task EXCEPT !.st = "threw"]
              [] bestMatch.kind = "track" ->
                     [task EXCEPT !.st = "done",
                                  !.out = Some(Resolved(bestMatch.track, song, task.st))]
              [] OTHER ->
                     IF task.st = "strict"
                     THEN [task EXCEPT !.st = "loose", !.issued = 2]
                     ELSE [task EXCEPT !.st = "done"]

\* a task after the answer to the query it waits for
TaskAfterAnswer(task, song, kind) ==
    IF kind = "error"
    THEN [task EXCEPT !.st = "done"]
    ELSE LET bestMatch == findBestTrackMatchFast(Items(kind, song), song)
         IN CASE bestMatch.kind = "throw" -> [task EXCEPT !.st = "done"]
              [] bestMatch.kind = "track" ->
                     [task EXCEPT !.st = "done",
                                  !.out = Some(Resolved(bestMatch.track, song, task.st))]
              [] OTHER ->
                     IF task.st = "strict"
                     THEN [task EXCEPT !.st = "loose", !.issued = 2]
                     ELSE [task EXCEPT !.st = "done"]

\* the call of searchTracksOnSpotifyFast: the first batch is issued, or the
\* function returns at once when there are no songs
ResolverStart(list) ==
    /\ songs' = list
    /\ results' = <<>>
    /\ batchStart' = 0
    /\ completed' = <<>>
    /\ \E c \in Catalogs : catalog' = c
    /\ IF list = <<>>
       THEN resolver' = "returned" /\ tasks' = <<>>
       ELSE resolver' = "batch" /\ tasks' = BatchTasks(list, 0)

\* the catalog answers the query task k waits for
CatalogAnswers(k) ==
    /\ resolver = "batch"
    /\ k \in 1..Len(tasks)
    /\ tasks[k].st # "done"
    /\ ~ContinuationRunnable
    /\ LET i == batchStart + k
           after == TaskAfterAnswer(tasks[k], songs[i], CatalogAnswer(catalog, i, tasks[k].st))
       IN /\ tasks' = [tasks EXCEPT ![k] = after]
          /\ completed' = IF observe /\ after.st = "done"
                          THEN Append(completed, k) ELSE completed
    /\ UNCHANGED <<entryVars, analyzerVars, fetchVars, fusionVars, resolver, songs,
                   catalog, batchStart, results, observe>>

\* BatchResults as it would be if the outcomes were collected as the tasks
\* settle: done lists the tasks in the order they settled
BatchResultsAsSettled(ts, done) ==
    LET Found(k) == IsSome(ts[k].out)
        found == SelectSeq(done, Found)
    IN [j \in 1..Len(found) |-> Get(ts[found[j]].out)]

\* batchResults.filter(Boolean): the outcomes of the tasks ts, in the order of
\* the tasks, whatever the order done in which they settled
BatchResults(ts, done) ==
    LET Found(task) == IsSome(task.out)
        found == SelectSeq(ts, Found)
    IN [j \in 1..Len(found) |-> Get(found[j].out)]

\* Promise.all(batchPromises) fulfils; the results are pushed, the delay starts
BatchJoin ==
    /\ BatchJoinReady
    /\ results' = results \o BatchResults(tasks, completed)
    /\ resolver' = "delay"
    /\ UNCHANGED <<entryVars, analyzerVars, fetchVars, fusionVars, songs, catalog,
                   batchStart, tasks, observe, completed>>

\* the 100 ms timer fires: the next batch is issued, or the function returns
DelayElapses ==
    /\ resolver = "delay"
    /\ ~ContinuationRunnable
    /\ batchStart' = batchStart + maxConcurrentRequests
    /\ IF batchStart + maxConcurrentRequests < Len(songs)
       THEN /\ resolver' = "batch"
            /\ tasks' = BatchTasks(songs, batchStart + maxConcurrentRequests)
            /\ completed' = <<>>
       ELSE /\ resolver' = "returned"
            /\ UNCHANGED <<tasks, completed>>
    /\ UNCHANGED <<entryVars, analyzerVars, fetchVars, fusionVars, songs, catalog,
                   results, observe>>

\* ------------------------------------------------------------------------
\* generateClassicRecommendations after the fusion engine, and its catch
\* ------------------------------------------------------------------------

\* EntryCatch as it would be if the catch block rethrew instead of returning []
EntryCatchRethrows(kind) ==
    /\ caught' = kind
    /\ returned' = None
    /\ pc' = "threw"

\* the catch block of the entry point: log, return []
EntryCatch(kind) ==
    /\ caught' = kind
    /\ returned' = Some(<<>>)
    /\ pc' = "done"

\* Math.min(constraints.minCount, 3): None when minCount is undefined (NaN)
MinNeeded(constraints) ==
    IF IsSome(constraints.minCount)
    THEN Some(Min(Get(constraints.minCount), MinCountCap))
    ELSE None

\* Insufficient as it would be if the entry point asked for four songs
\* whatever minCount is
InsufficientBelowFour(aligned, constraints) ==
    /\ IsSome(MinNeeded(constraints))
    /\ Len(aligned) < MinCountCap + 1

\* Insufficient as it would be if only an empty fused list were too short
InsufficientOnlyWhenEmpty(aligned, constraints) ==
    /\ IsSome(MinNeeded(constraints))
    /\ Len(aligned) = 0

\* alignedSongs.length < Math.min(minCount, 3): a comparison with NaN is false
Insufficient(aligned, constraints) ==
    /\ IsSome(MinNeeded(constraints))
    /\ Len(aligned) < Get(MinNeeded(constraints))

\* ResolverInput as it would be without the cap of 15
ResolverInputUncapped(aligned, constraints) ==
    IF IsSome(constraints.targetCount)
    THEN SliceTo(aligned, Get(constraints.targetCount))
    ELSE <<>>

\* alignedSongs.slice(0, Math.min(targetCount, 15)): slice(0, NaN) is empty
ResolverInput(aligned, constraints) ==
    IF IsSome(constraints.targetCount)
    THEN SliceTo(aligned, Min(Get(constraints.targetCount), MaxResolved))
    ELSE <<>>

\* the fusion engine threw, or reading constraints.minCount of an undefined
\* constraints throws: the catch block returns []
EntryCatchesError ==
    /\ FusionSettled
    /\ fusion = "threw" \/ ~IsSome(TheAnalysis.constraints)
    /\ EntryCatch("error")
    /\ UNCHANGED <<prompt, analyzerVars, fetchVars, fusionVars, resolverVars>>

\* too few aligned songs: the entry point throws "Not enough quality results"
\* into its own catch block
EntryInsufficient ==
    /\ FusionSettled
    /\ fusion = "returned" /\ IsSome(TheAnalysis.constraints)
    /\ Insufficient(Get(alignedSongs), Get(TheAnalysis.constraints))
    /\ EntryCatch("insufficient")
    /\ UNCHANGED <<prompt, analyzerVars, fetchVars, fusionVars, resolverVars>>

\* From here on nothing reads what the fetchers and the fusion engine worked
\* with (their calls and their lists): the state keeps that they returned and
\* what the fusion engine returned, and drops the rest.
StagesForgotten ==
    /\ webCalls' = <<>> /\ webResults' = <<>>
    /\ genCall' = "over" /\ aiResults' = <<>>
    /\ allSongs' = <<>> /\ rankedSongs' = <<>> /\ verifySent' = <<>>
    /\ rankCall' = "over" /\ verifyCall' = "over"

\* enough aligned songs: the catalog resolver is called
EntryCallsResolver ==
    /\ FusionSettled
    /\ fusion = "returned" /\ IsSome(TheAnalysis.constraints)
    /\ ~Insufficient(Get(alignedSongs), Get(TheAnalysis.constraints))
    /\ pc' = "awaitResolver"
    /\ ResolverStart(ResolverInput(Get(alignedSongs), Get(TheAnalysis.constraints)))
    /\ StagesForgotten
    /\ UNCHANGED <<prompt, returned, caught, analyzerVars, webFetch, genFetch, fusion,
                   alignedSongs, observe>>

\* the resolver returned: the entry point returns its tracks
EntryReturns ==
    /\ ResolverSettled
    /\ returned' = Some(results)
    /\ pc' = "done"
    /\ UNCHANGED <<prompt, caught, analyzerVars, fetchVars, fusionVars, resolverVars>>

\* ------------------------------------------------------------------------
\* The specification of a request
\* ------------------------------------------------------------------------

Idle ==
    /\ returned = None
    /\ caught = ""
    /\ compCall = "idle" /\ embCall = "idle" /\ analyzer = "idle"
    /\ analysisResult = None
    /\ webCalls = <<>> /\ webFetch = "idle" /\ webResults = <<>>
    /\ genCall = "idle" /\ genFetch = "idle" /\ aiResults = <<>>
    /\ fusion = "idle" /\ allSongs = <<>> /\ rankedSongs = <<>>
    /\ rankCall = "idle" /\ verifyCall = "idle" /\ verifySent = <<>>
    /\ alignedSongs = None
    /\ resolver = "idle" /\ songs = <<>> /\ catalog = 0 /\ batchStart = 0
    /\ tasks = <<>> /\ results = <<>> /\ completed = <<>>

Init ==
    /\ prompt \in Prompts
    /\ pc = "start"
    /\ observe = FALSE
    /\ Idle

Next ==
    \/ Start
    \/ CompletionSettles
    \/ EmbeddingSettles
    \/ AnalyzerFallback
    \/ AnalyzerNormal
    \/ FetchersStart
    \/ \E i \in 1..MaxQueries : WebCallSettles(i)
    \/ WebReturns
    \/ GenCallSettles
    \/ FusionStart
    \/ RankCallSettles
    \/ VerifyCallSettles
    \/ EntryCatchesError
    \/ EntryInsufficient
    \/ EntryCallsResolver
    \/ \E k \in 1..maxConcurrentRequests : CatalogAnswers(k)
    \/ BatchJoin
    \/ DelayElapses
    \/ EntryReturns

Spec == Init /\ [][Next]_vars

\* ------------------------------------------------------------------------
\* The specification of the catalog resolver alone: a call of
\* searchTracksOnSpotifyFast with a list of songs, where the order in which
\* the lookups of a batch settle is recorded for short lists
\* ------------------------------------------------------------------------

MaxResolverSongs == 9

MaxObserved == 3

SongPool ==
    << MkSong(Some(<<"W","a","t","e","r","l","o","o">>), Some(<<"A","b","b","a">>), AISource, Some(1974), Some(9)),
       MkSong(Some(<<"H","u","r","t">>), Some(<<"J","o","h","n","n","y"," ","C","a","s","h">>), AISource, Some(2002), Some(7)),
       MkSong(Some(<<"S","a","d"," ","S","o","n","g">>), Some(<<"L","o","u"," ","R","e","e","d">>), WebSource, None, None),
       MkSong(None, Some(<<"x">>), AISource, None, None) >>

ResolverInputs == {[i \in 1..n |-> Cycle(SongPool, i)] : n \in 0..MaxResolverSongs}

InitResolver ==
    /\ prompt = AllPrompts[1]
    /\ pc = "resolverCall"
    /\ observe = FALSE
    /\ Idle

CallResolver ==
    /\ pc = "resolverCall"
    /\ pc' = "awaitResolver"
    /\ \E list \in ResolverInputs :
           /\ ResolverStart(list)
           /\ observe' = (Len(list) <= MaxObserved)
    /\ UNCHANGED <<prompt, returned, caught, analyzerVars, fetchVars, fusionVars>>

NextResolver ==
    \/ CallResolver
    \/ \E k \in 1..maxConcurrentRequests : CatalogAnswers(k)
    \/ BatchJoin
    \/ DelayElapses
    \/ EntryReturns

SpecResolver == InitResolver /\ [][NextResolver]_vars

\* ========================================================================
\* Claims
\* ========================================================================

\* where generateClassicRecommendations can be
PcValues == {"start", "awaitAnalysis", "awaitFetchers", "awaitFusion", "awaitResolver", "done"}

\* the call the entry point is waiting for is still pending
AwaitedCallPending ==
    \/ pc = "awaitAnalysis" /\ (compCall = "pending" \/ embCall = "pending")
    \/ pc = "awaitFetchers" /\ genCall = "pending"
    \/ pc = "awaitFetchers" /\ \E i \in 1..Len(webCalls) : webCalls[i].st = "pending"
    \/ pc = "awaitFusion" /\ (rankCall = "pending" \/ verifyCall = "pending")
    \/ pc = "awaitResolver" /\ resolver = "delay"
    \/ pc = "awaitResolver" /\ \E k \in 1..Len(tasks) : tasks[k].st # "done"

\* C1: generateClassicRecommendations never throws or rejects: whatever the
\* analyzer, the fetchers, the fusion engine and the resolver do, it is never
\* left with an exception; until it is over it is either runnable or waiting
\* for a call that is still pending; once it is over it has returned a list,
\* and the empty list whenever its catch block ran (the fusion engine threw,
\* the constraints were missing or the results were too few).
C1_NeverThrows ==
    /\ pc \in PcValues
    /\ (pc = "done") <=> IsSome(returned)
    /\ caught # "" => pc = "done" /\ returned = Some(<<>>)
    /\ (fusion = "threw" /\ pc # "awaitFusion") => pc = "done" /\ returned = Some(<<>>)
    /\ pc # "done" => ContinuationRunnable \/ AwaitedCallPending

\* C1 witness: the verification call failed, the fusion engine threw, and the
\* entry point returned the empty list
C1_Witness ==
    /\ pc = "done"
    /\ verifyCall = "failed"
    /\ fusion = "threw"
    /\ caught = "error"
    /\ returned = Some(<<>>)

\* C2: when the verification step fails (the call fails or its content does
\* not parse), combineAndVerifyAlignmentFast returns, without throwing, the
\* first targetCount (12 when unset) songs of the merged list that have a
\* title and an artist, in the order of the merged list.
C2_FallbackOnVerificationFailure ==
    (verifyCall \in {"failed", "garbage"} /\ IsSome(TheAnalysis.constraints)) =>
        /\ fusion = "returned"
        /\ alignedSongs =
               Some(SliceTo(SelectSeq(allSongs, HasTitleAndArtist),
                            IF IsSome(Get(TheAnalysis.constraints).targetCount)
                            THEN Get(Get(TheAnalysis.constraints).targetCount)
                            ELSE 12))

\* C3, as the spec states it: the insufficient-results condition reaches the
\* caller as something else than what a failed step yields, which is the
\* empty list
C3_InsufficientIsDistinct ==
    (pc = "done" /\ caught = "insufficient") => returned # Some(<<>>)

\* C3, amended: too few aligned songs make the entry point throw into its own
\* catch block, which returns the empty list, as it does for a failed step;
\* the catch block runs for this reason only when the fusion engine returned
\* fewer than min(minCount, 3) songs.
C3_InsufficientReturnsEmpty ==
    /\ caught \in {"", "insufficient", "error"}
    /\ caught = "insufficient" =>
           /\ pc = "done" /\ returned = Some(<<>>)
           /\ fusion = "returned"
           /\ IsSome(Get(TheAnalysis.constraints).minCount)
           /\ Len(Get(alignedSongs)) < Get(Get(TheAnalysis.constraints).minCount)
           /\ Len(Get(alignedSongs)) < 3
    /\ caught = "error" => pc = "done" /\ returned = Some(<<>>)

\* C3 witness: a request whose fusion returned one song, fewer than needed,
\* has ended in the catch block with the empty list
C3_Witness ==
    /\ pc = "done"
    /\ caught = "insufficient"
    /\ Len(Get(alignedSongs)) = 1
    /\ returned = Some(<<>>)

\* the constraints of the request, once the analyzer has returned some
HasConstraints == IsSome(analysisResult) /\ IsSome(TheAnalysis.constraints)

\* the fusion engine returned fewer than min(minCount, 3) songs
FusedTooShort ==
    /\ fusion = "returned"
    /\ HasConstraints
    /\ IsSome(Get(TheAnalysis.constraints).minCount)
    /\ Len(Get(alignedSongs)) < Get(Get(TheAnalysis.constraints).minCount)
    /\ Len(Get(alignedSongs)) < 3

\* C4: whenever the fusion engine returns fewer than min(minCount, 3) songs,
\* the catalog resolver is never invoked for the request and the request
\* ends with the empty list, never with tracks of the too-short list.
C4_TooShortFails ==
    FusedTooShort =>
        /\ resolver = "idle" /\ songs = <<>> /\ tasks = <<>> /\ results = <<>>
        /\ pc \in {"awaitFusion", "done"}
        /\ pc = "done" => returned = Some(<<>>) /\ caught = "insufficient"

\* C4 witness: targetCount 12, minCount 3 and a fused list of exactly two
\* songs that have a title and an artist: the request has ended, failed
C4_Witness ==
    /\ pc = "done"
    /\ HasConstraints
    /\ Get(TheAnalysis.constraints).targetCount = Some(12)
    /\ Get(TheAnalysis.constraints).minCount = Some(3)
    /\ fusion = "returned"
    /\ Len(Get(alignedSongs)) = 2
    /\ \A i \in 1..2 : HasTitleAndArtist(Get(alignedSongs)[i])
    /\ resolver = "idle"
    /\ returned = Some(<<>>)

\* the generative fetcher's call failed, timed out or answered what does not
\* parse to an array
GenFailed == genCall \in {"failed", "garbage", "nonarray"}

\* every search call of the web fetcher failed, timed out or was not OK
WebFailed ==
    /\ webFetch = "returned"
    /\ webCalls # <<>>
    /\ \A i \in 1..Len(webCalls) : webCalls[i].st \in {"failed", "notok"}

\* the web fetcher returned and one of its search calls was answered
WebSucceeded ==
    /\ webFetch = "returned"
    /\ \E i \in 1..Len(webCalls) : webCalls[i].st = "ok"

\* exactly one of the two fetchers failed
OneFetcherFailed == (GenFailed /\ WebSucceeded) \/ (WebFailed /\ genCall = "ok")

\* the fusion engine returned enough songs for the entry point to go on
FusedEnough ==
    /\ fusion = "returned"
    /\ HasConstraints
    /\ \/ ~IsSome(Get(TheAnalysis.constraints).minCount)
       \/ /\ Len(Get(alignedSongs)) >= Get(Get(TheAnalysis.constraints).minCount)
          \/ Len(Get(alignedSongs)) >= 3

\* C5, the states: a fetcher that failed has returned the empty list; when
\* exactly one of the two failed, the fusion engine works on the other's
\* candidates, and a request that ended failed did so because the fusion
\* engine threw or returned too few songs.
C5_FetcherStates ==
    /\ genFetch \in {"idle", "waiting", "returned"}
    /\ webFetch \in {"idle", "waiting", "returned"}
    /\ GenFailed => genFetch = "returned" /\ aiResults = <<>>
    /\ WebFailed => webResults = <<>>
    /\ (GenFailed /\ WebSucceeded /\ fusion # "idle") =>
           allSongs = removeDuplicateSongsFast(webResults)
    /\ (WebFailed /\ genCall = "ok" /\ fusion # "idle") =>
           allSongs = removeDuplicateSongsFast(aiResults)
    /\ OneFetcherFailed =>
           /\ pc = "awaitFetchers" => FusionCanStart
           /\ pc = "done" => fusion = "threw" \/ FusedTooShort

\* C5, the steps: with exactly one fetcher failed and enough songs returned
\* by the fusion engine, the entry point goes on to the catalog resolver.
C5_RequestGoesOn ==
    (/\ OneFetcherFailed
     /\ pc = "awaitFusion"
     /\ FusedEnough)
        => pc' = "awaitResolver" /\ resolver' # "idle"

\* C5: if exactly one of the two source fetchers fails, it yields the empty
\* list without throwing, the fusion engine still runs on the other
\* fetcher's candidates, and the request is not failed for that reason.
C5_OneSourceFailure == [](C5_FetcherStates) /\ [][C5_RequestGoesOn]_vars

\* C5 witness: the generative fetcher's call failed, the web fetcher found
\* songs, and the fusion engine returned enough of them
C5_Witness ==
    /\ pc = "awaitFusion"
    /\ GenFailed /\ aiResults = <<>>
    /\ WebSucceeded /\ webResults # <<>>
    /\ allSongs = webResults
    /\ FusedEnough
    /\ Len(Get(alignedSongs)) >= 3

\* C6: the list the fusion engine returns is no longer than targetCount (12
\* when targetCount is unset), the catalog resolver receives at most
\* min(targetCount, 15) songs, and the entry point returns at most as many
\* tracks as songs were handed to the resolver.
C6_LengthBounds ==
    /\ (fusion = "returned" /\ HasConstraints) =>
           Len(Get(alignedSongs)) <=
               (IF IsSome(Get(TheAnalysis.constraints).targetCount)
                THEN Get(Get(TheAnalysis.constraints).targetCount)
                ELSE 12)
    /\ (resolver # "idle" /\ HasConstraints) =>
           /\ Len(songs) <= 15
           /\ IsSome(Get(TheAnalysis.constraints).targetCount) =>
                  Len(songs) <= Get(Get(TheAnalysis.constraints).targetCount)
           /\ Len(results) <= Len(songs)
    /\ pc = "done" => Len(Get(returned)) <= Len(songs)

\* C6 witness: targetCount 16 and a fused list of 16 songs; the resolver was
\* handed 15 of them and the entry point has returned tracks
C6_Witness ==
    /\ pc = "done"
    /\ HasConstraints /\ fusion = "returned"
    /\ Get(TheAnalysis.constraints).targetCount = Some(16)
    /\ Len(Get(alignedSongs)) = 16
    /\ Len(songs) = 15
    /\ Len(Get(returned)) > 0

\* C7: neither source fetcher starts before the analyzer has returned, the
\* fusion engine starts only after both fetchers have settled, and the
\* catalog resolver starts only after the fusion engine has returned.
C7_StageOrder ==
    /\ (webFetch # "idle" \/ genFetch # "idle" \/ genCall # "idle" \/ webCalls # <<>>) =>
           /\ analyzer \in {"normal", "fallback"}
           /\ IsSome(analysisResult)
    /\ fusion # "idle" =>
           /\ webFetch = "returned" /\ genFetch = "returned"
           /\ genCall # "pending"
           /\ \A i \in 1..Len(webCalls) : webCalls[i].st # "pending"
    /\ (resolver # "idle" \/ tasks # <<>>) =>
           /\ fusion = "returned"
           /\ IsSome(alignedSongs)
           /\ rankCall # "pending" /\ verifyCall # "pending"

\* C7 witness: the catalog resolver is looking songs up, after the three
\* stages before it
C7_Witness ==
    /\ pc = "awaitResolver"
    /\ resolver = "batch" /\ tasks # <<>>
    /\ analyzer = "normal"
    /\ webFetch = "returned" /\ genFetch = "returned"
    /\ fusion = "returned"

\* the song task k of the current batch looks up
TaskSong(k) == songs[batchStart + k]

\* the candidates the catalog returns for a formulation of task k's query
Candidates(k, strategy) ==
    Items(CatalogAnswer(catalog, batchStart + k, strategy), TaskSong(k))

\* some candidate of the list scores above 0.5 for the song
SomeQualifies(items, song) == \E j \in 1..Len(items) : GoodMatch(items[j], song)

\* the tasks of the current batch are those of the songs after batchStart
InBatch == resolver \in {"batch", "delay"}

\* C8, as the spec states it: a candidate scoring 0.5 or less is accepted
\* only after both formulations were tried, and the loose query is issued
\* whenever the strict query returned candidates none of which scores above 0.5
C8_LowScoreOnlyAfterBoth ==
    InBatch =>
        \A k \in 1..Len(tasks) :
            /\ (IsSome(tasks[k].out) /\ ~GoodMatch(Get(tasks[k].out).track, TaskSong(k))) =>
                   tasks[k].issued = 2
            /\ (/\ tasks[k].st = "done"
                /\ IsSome(TaskSong(k).title)
                /\ Candidates(k, "strict") # <<>>
                /\ ~SomeQualifies(Candidates(k, "strict"), TaskSong(k))) =>
                   tasks[k].issued = 2

\* C8, amended: the strict query is issued first and the loose query only
\* when the strict one returned no candidate at all; the lookup stops at the
\* first formulation that returns any candidate, and accepts the first
\* candidate of that formulation scoring above 0.5, or its first candidate
\* when none does.
C8_StopsAtFirstCandidates ==
    InBatch =>
        \A k \in 1..Len(tasks) :
            LET task == tasks[k]
                song == TaskSong(k)
            IN /\ task.issued \in {1, 2}
               /\ task.st = "strict" => task.issued = 1
               /\ task.st = "loose" => task.issued = 2
               /\ task.issued = 2 =>
                      /\ CatalogAnswer(catalog, batchStart + k, "strict") # "error"
                      /\ Candidates(k, "strict") = <<>>
               /\ IsSome(task.out) =>
                      LET strategy == Get(task.out).classicMetadata.search_strategy
                          items == Candidates(k, strategy)
                          track == Get(task.out).track
                      IN /\ task.st = "done"
                         /\ strategy = (IF task.issued = 1 THEN "strict" ELSE "loose")
                         /\ items # <<>>
                         /\ \E j \in 1..Len(items) :
                                /\ track = items[j]
                                /\ \A h \in 1..(j - 1) : ~GoodMatch(items[h], song)
                                /\ GoodMatch(track, song) \/
                                       (j = 1 /\ ~SomeQualifies(items, song))

\* C8 witness: a lookup has accepted the only candidate of the strict query,
\* which scores 0.5 or less, while the loose query, never issued, would have
\* returned a candidate scoring above 0.5
C8_Witness ==
    /\ InBatch
    /\ \E k \in 1..Len(tasks) :
           /\ tasks[k].st = "done"
           /\ tasks[k].issued = 1
           /\ IsSome(tasks[k].out)
           /\ Get(tasks[k].out).track = Candidates(k, "strict")[1]
           /\ ~GoodMatch(Get(tasks[k].out).track, TaskSong(k))
           /\ SomeQualifies(Candidates(k, "loose"), TaskSong(k))

\* C9, as the spec states it: the analyzer never produces its result, normal
\* or fallback, while either of its two calls is still pending
C9_WaitsForAll ==
    analyzer \in {"normal", "fallback"} => compCall # "pending" /\ embCall # "pending"

\* C9, the states of the join: a normal result needs both calls fulfilled; a
\* fallback comes of a failed call, whatever the other call's state, or of
\* two fulfilled calls whose output could not be used
C9_JoinStates ==
    /\ analyzer = "normal" => compCall = "ok" /\ embCall = "ok"
    /\ analyzer = "fallback" =>
           \/ compCall = "failed"
           \/ embCall = "failed"
           \/ compCall = "ok" /\ embCall = "ok"
    /\ analyzer = "waiting" => compCall = "pending" \/ embCall = "pending" \/ AnalyzerJoinReady
    /\ analyzer \in {"normal", "fallback"} <=> IsSome(analysisResult)

\* C9, the steps of the join: once one of the two calls has failed, the next
\* step is the analyzer returning its fallback, the other call pending or not
C9_FailFastStep ==
    (analyzer = "waiting" /\ (compCall = "failed" \/ embCall = "failed")) =>
        /\ analyzer' = "fallback"
        /\ compCall' = compCall /\ embCall' = embCall

\* C9, amended: the join of the completion call and the embedding call is
\* fail-fast: the analyzer returns its fallback as soon as either call
\* fails, without waiting for the other; only its normal result waits for both.
C9_FailFast == [](C9_JoinStates) /\ [][C9_FailFastStep]_vars

\* C9 witness: the analyzer has returned its fallback after the completion
\* call failed, with the embedding call still pending
C9_Witness ==
    /\ analyzer = "fallback"
    /\ compCall = "failed"
    /\ embCall = "pending"
    /\ analysisResult = Some(FallbackAnalysis(prompt))

\* the outcomes of the tasks that found a track, in the order of the tasks
RECURSIVE FoundInTaskOrder(_)
FoundInTaskOrder(ts) ==
    IF ts = <<>> THEN <<>>
    ELSE (IF IsSome(Head(ts).out) THEN <<Get(Head(ts).out)>> ELSE <<>>)
             \o FoundInTaskOrder(Tail(ts))

\* the outcomes of the tasks that found a track, in the order they settled
FoundInSettlingOrder ==
    LET Found(k) == IsSome(tasks[k].out)
        found == SelectSeq(completed, Found)
    IN [j \in 1..Len(found) |-> Get(tasks[found[j]].out)]

\* the first position of a song in the list the resolver was called with
PositionOf(song) == CHOOSE i \in 1..Len(songs) : songs[i] = song /\ \A h \in 1..(i - 1) : songs[h] # song

\* C10, as the spec states it: within a batch the tracks are in the order in
\* which the lookups completed
C10_CompletionOrder ==
    (observe /\ resolver = "delay") => results = FoundInSettlingOrder

\* C10, the states: the tracks of a list of distinct songs are in the order
\* of the songs in the list
C10_ResultsFollowInput ==
    (observe /\ resolver # "idle") =>
        \A a, b \in 1..Len(results) :
            a < b => PositionOf(results[a].classicMetadata.song)
                         < PositionOf(results[b].classicMetadata.song)

\* C10, the steps: the tracks a batch adds are those its tasks found, in the
\* order of the tasks
C10_BatchAppendsInTaskOrder ==
    results' # results => results' = results \o FoundInTaskOrder(tasks)

\* C10, amended: the tracks returned by the catalog resolver are in the
\* input order of their songs, within each batch and across batches,
\* whatever the order in which the lookups completed.
C10_InputOrder == [](C10_ResultsFollowInput) /\ [][C10_BatchAppendsInTaskOrder]_vars

\* C10 witness: the lookup of the second song settled before that of the
\* first, both found a track, and the batch's tracks are in input order
C10_Witness ==
    /\ observe /\ resolver = "delay"
    /\ Len(completed) >= 2
    /\ completed[1] = 2 /\ completed[2] = 1
    /\ IsSome(tasks[1].out) /\ IsSome(tasks[2].out)
    /\ Len(results) >= 2
    /\ results[1] = Get(tasks[1].out) /\ results[2] = Get(tasks[2].out)

\* C11: every constraints value the analyzer hands on, from the generative
\* model's JSON or from the fallback, has a targetCount between 1 and 15 and
\* a minCount that is a number, min(targetCount, 3) when none was supplied.
C11_ConstraintsNormalised ==
    analyzer \in {"normal", "fallback"} =>
        /\ IsSome(TheAnalysis.constraints)
        /\ IsSome(Get(TheAnalysis.constraints).targetCount)
        /\ Get(Get(TheAnalysis.constraints).targetCount) \in 1..15
        /\ IsSome(Get(TheAnalysis.constraints).minCount)
        /\ Get(Get(TheAnalysis.constraints).minCount) >= 1

\* the tasks of the current batch whose lookup is in flight
InFlight == {k \in 1..Len(tasks) : tasks[k].st # "done"}

\* C12, the states: at most 8 lookups are in flight, a batch is the next at
\* most 8 songs after a multiple of 8, and between two batches no lookup is
\* in flight
C12_BatchStates ==
    /\ Cardinality(InFlight) <= 8
    /\ Len(tasks) <= 8
    /\ resolver = "batch" =>
           /\ batchStart % 8 = 0
           /\ batchStart < Len(songs)
           /\ Len(tasks) = (IF Len(songs) - batchStart < 8 THEN Len(songs) - batchStart ELSE 8)
    /\ resolver \in {"delay", "returned"} => InFlight = {}

\* C12, the steps: a batch is issued only when no lookup of the batch before
\* it is in flight, and it starts 8 songs after that batch
C12_NextBatchAfterAllSettled ==
    (resolver' = "batch" /\ (resolver # "batch" \/ batchStart' # batchStart)) =>
        /\ InFlight = {}
        /\ resolver \in {"idle", "delay"}
        /\ resolver = "delay" => batchStart' = batchStart + 8
        /\ results' = results

\* C12: the catalog resolver processes the songs in sequential batches of at
\* most 8: never more than 8 lookups in flight, and no lookup of a batch
\* before every lookup of the batch before it has settled.
C12_SequentialBatches == [](C12_BatchStates) /\ [][C12_NextBatchAfterAllSettled]_vars

\* C12 witness: the ninth song's lookup is in flight, after the eight
\* lookups of the first batch settled and their tracks were collected
C12_Witness ==
    /\ resolver = "batch"
    /\ Len(songs) = 9
    /\ batchStart = 8
    /\ InFlight = {1}
    /\ Len(results) >= 1

\* what the catalog returns for a formulation of the query of the i-th song
Answer(i, strategy) == CatalogAnswer(catalog, i, strategy)

CandidatesOf(i, strategy) == Items(Answer(i, strategy), songs[i])

\* the search of a formulation for the i-th song fails: the catalog call
\* throws, or scoring a candidate dereferences a title or an artist the song
\* does not have
LookupFails(i, strategy) ==
    \/ Answer(i, strategy) = "error"
    \/ /\ CandidatesOf(i, strategy) # <<>>
       /\ \/ ~IsSome(songs[i].title)
          \/ ~IsSome(songs[i].artist) /\ CandidatesOf(i, strategy)[1].artists # <<>>

\* the i-th song resolves to nothing: its strict search fails, or returns no
\* candidate and the loose search fails or returns no candidate either
ResolvesToNothing(i) ==
    \/ LookupFails(i, "strict")
    \/ /\ CandidatesOf(i, "strict") = <<>>
       /\ LookupFails(i, "loose") \/ CandidatesOf(i, "loose") = <<>>

\* the songs among the first n that resolve to a track
ResolvedAmong(n) == {i \in 1..n : ~ResolvesToNothing(i)}

\* C13, the states: a lookup ends with a track or with nothing, never with an
\* error; which of the two depends on the answers to its own song's queries
\* only; the tracks collected are those of all the songs that resolve, of
\* this batch and of the batches before it; the resolver returns them
C13_FailuresStayLocal ==
    /\ \A k \in 1..Len(tasks) : tasks[k].st \in {"strict", "loose", "done"}
    /\ InBatch =>
           \A k \in 1..Len(tasks) :
               tasks[k].st = "done" =>
                   (IsSome(tasks[k].out) <=> ~ResolvesToNothing(batchStart + k))
    /\ resolver = "delay" =>
           Len(results) = Cardinality(ResolvedAmong(batchStart + Len(tasks)))
    /\ resolver = "returned" =>
           /\ Len(results) = Cardinality(ResolvedAmong(Len(songs)))
           /\ \A j \in 1..Len(results) :
                  \E i \in ResolvedAmong(Len(songs)) : results[j].classicMetadata.song = songs[i]
    /\ caught = ""
    /\ pc = "done" => returned = Some(results)

\* C13, the steps: after a batch, whatever its lookups ended with, the next
\* batch is issued when songs remain
C13_LaterBatchesProcessed ==
    (resolver = "delay" /\ batchStart + 8 < Len(songs)) =>
        /\ resolver' = "batch"
        /\ Len(tasks') >= 1

\* C13: a failure while resolving one song makes only that song resolve to
\* nothing; the other songs of the batch and the later batches are processed
\* and their tracks returned; two formulations without candidates make the
\* song resolve to nothing without an error.
C13_PerSongFailures == [](C13_FailuresStayLocal) /\ [][C13_LaterBatchesProcessed]_vars

\* C13 witness: of nine songs, one whose catalog call threw, one whose
\* matching threw and one without candidates for either formulation are
\* absent from what the resolver returned, which has tracks of the first
\* batch and the track of the ninth song
C13_Witness ==
    /\ pc = "done" /\ Len(songs) = 9
    /\ \E i \in 1..8 : Answer(i, "strict") = "error"
    /\ \E i \in 1..8 : Answer(i, "strict") # "error" /\ CandidatesOf(i, "strict") # <<>>
                           /\ ~IsSome(songs[i].title)
    /\ \E i \in 1..8 : Answer(i, "strict") = "empty" /\ Answer(i, "loose") = "empty"
    /\ ~ResolvesToNothing(9)
    /\ Len(Get(returned)) = Cardinality(ResolvedAmong(9))
    /\ Get(returned)[Len(Get(returned))].classicMetadata.song = songs[9]
    /\ Len(Get(returned)) >= 3

\* the songs of the search calls that were answered
SongsOfAnsweredCalls ==
    UNION {Range(webCalls[i].songs) : i \in {h \in 1..Len(webCalls) : webCalls[h].st = "ok"}}

\* C14, the states: at most 2 search calls; a call that failed, timed out or
\* was not OK has no songs; when the fetcher has returned, every song of
\* every answered call is in its output, by itself or by an earlier song of
\* the same dedupe key, the output has nothing else and no key twice; the
\* fetcher never throws
C14_WebFetcherStates ==
    /\ Len(webCalls) <= 2
    /\ webFetch \in {"idle", "waiting", "returned"}
    /\ \A i \in 1..Len(webCalls) :
           /\ webCalls[i].st \in {"pending", "failed", "notok", "ok"}
           /\ webCalls[i].st \in {"failed", "notok"} => webCalls[i].songs = <<>>
    /\ webFetch = "waiting" => webResults = <<>>
    /\ (webFetch = "returned" /\ webCalls # <<>>) =>
           /\ \A s \in SongsOfAnsweredCalls :
                  \E j \in 1..Len(webResults) : DedupeKey(webResults[j]) = DedupeKey(s)
           /\ \A j \in 1..Len(webResults) : webResults[j] \in SongsOfAnsweredCalls
           /\ \A j, h \in 1..Len(webResults) :
                  j # h => DedupeKey(webResults[j]) # DedupeKey(webResults[h])

\* C14, the steps: the fetcher issues all its calls at once, and a call
\* that settles leaves its siblings and their songs as they are
C14_CallsRunTogether ==
    /\ (webFetch = "idle" /\ webFetch' = "waiting") =>
           \A i \in 1..Len(webCalls') : webCalls'[i].st = "pending"
    /\ (webFetch = "waiting" /\ webCalls' # webCalls) =>
           /\ Len(webCalls') = Len(webCalls)
           /\ \E i \in 1..Len(webCalls) :
                  /\ webCalls[i].st = "pending" /\ webCalls'[i].st # "pending"
                  /\ \A h \in 1..Len(webCalls) : h # i => webCalls'[h] = webCalls[h]

\* C14: the search calls of the web fetcher run concurrently; a call that
\* fails, times out or is not OK contributes nothing for its own query only,
\* the songs of the sibling calls are in the fetcher's deduplicated output,
\* and the fetcher never throws.
C14_SiblingsSurvive == [](C14_WebFetcherStates) /\ [][C14_CallsRunTogether]_vars

\* C14 witness: the first search call failed, the second was answered with
\* songs, and the fetcher returned the songs of the second
C14_Witness ==
    /\ webFetch = "returned"
    /\ Len(webCalls) = 2
    /\ webCalls[1].st \in {"failed", "notok"}
    /\ webCalls[2].st = "ok"
    /\ Len(webCalls[2].songs) >= 2
    /\ webResults = webCalls[2].songs

\* the verification call was answered with an array and the fusion engine
\* returned what it kept of it
VerifiedAndReturned ==
    /\ pc = "awaitFusion"
    /\ verifyCall = "ok"
    /\ fusion = "returned"
    /\ HasConstraints

\* the artist a request asks for, when it asks for one
RequestedArtist == Get(TheAnalysis.constraints).specificArtist

\* C15: when the verification call succeeds, every song the fusion engine
\* returns has an alignment score, of at least 6, and, when
\* constraints.specificArtist is set, an artist (the empty string when the
\* song has none) that contains or is contained by the requested artist,
\* letter case aside.
C15_OutputPassedTheFilter ==
    VerifiedAndReturned =>
        \A j \in 1..Len(Get(alignedSongs)) :
            LET song == Get(alignedSongs)[j]
            IN /\ IsSome(song.alignment_score)
               /\ Get(song.alignment_score) >= 6
               /\ (IsSome(RequestedArtist) /\ Get(RequestedArtist) # <<>>) =>
                      LET wanted == ToLower(Get(RequestedArtist))
                          has == IF IsSome(song.artist) THEN ToLower(Get(song.artist)) ELSE <<>>
                      IN Includes(has, wanted) \/ Includes(wanted, has)

\* C15 witness: an artist was asked for, the verifier scored every song it
\* was sent 8, and the fusion engine returned the songs of that artist only
C15_Witness ==
    /\ VerifiedAndReturned
    /\ RequestedArtist = Some(<<"A", "b", "b", "a">>)
    /\ Len(verifySent) >= 2
    /\ Len(Get(alignedSongs)) >= 1
    /\ Len(Get(alignedSongs)) < Len(verifySent)
    /\ \A j \in 1..Len(Get(alignedSongs)) :
           Get(alignedSongs)[j].artist = Some(<<"A", "b", "b", "a">>)

\* two songs have the same title and the same artist
SamePair(a, b) == a.title = b.title /\ a.artist = b.artist

\* C16: every song the fusion engine returns is one of the merged,
\* deduplicated candidates of the two fetchers and, when the verification
\* call succeeded, one of the at most 10 candidates sent to the verifier.
C16_OutputAmongCandidates ==
    (pc = "awaitFusion" /\ fusion = "returned") =>
        \A j \in 1..Len(Get(alignedSongs)) :
            /\ \E i \in 1..Len(allSongs) : SamePair(Get(alignedSongs)[j], allSongs[i])
            /\ verifyCall = "ok" =>
                   \E i \in 1..Len(verifySent) : SamePair(Get(alignedSongs)[j], verifySent[i])

\* ------------------------------------------------------------------------
\* The specification of the analyzer alone: a call of analyzeUserPromptFast
\* with any short prompt over a small alphabet, or one of a few longer ones,
\* up to its return
\* ------------------------------------------------------------------------

MaxPromptLen == 3

PromptAlphabet == {"0", "2", "9", "a", " "}

RECURSIVE StringsUpTo(_)
StringsUpTo(n) ==
    IF n = 0 THEN {<<>>}
    ELSE LET shorter == StringsUpTo(n - 1)
         IN shorter \cup {Append(s, c) : s \in shorter, c \in PromptAlphabet}

LongPrompts ==
    { <<"o","n","e"," ","t","w","o"," ","s","i","x"," ","t","e","n"," ","a","b"," ","c","d","e"," ","f","g","h"," ","i","j","k">>,
      <<"t","o","p"," ","0"," ","h","i","t","s">>,
      <<"m","i","x","9"," ","1","2"," ","h","i","t","s">> }

AnalyzerPrompts == StringsUpTo(MaxPromptLen) \cup LongPrompts \cup Range(AllPrompts)

InitAnalyzer ==
    /\ prompt \in AnalyzerPrompts
    /\ pc = "start"
    /\ observe = FALSE
    /\ Idle

NextAnalyzer ==
    \/ Start
    \/ CompletionSettles
    \/ EmbeddingSettles
    \/ AnalyzerFallback
    \/ AnalyzerNormal

SpecAnalyzer == InitAnalyzer /\ [][NextAnalyzer]_vars

\* the first integer found in the prompt, none when there is none
FirstInteger == extractNumberFromPrompt(prompt)

\* the words of the prompt longer than 2 characters
LongWords == SelectSeq(SplitSpace(prompt), LongerThan2)

\* the fallback result has this count behind its targetCount and minCount,
\* at most 5 keywords, the first long words of the prompt, and no embedding
FallbackHas(count) ==
    /\ IsSome(analysisResult)
    /\ IsSome(TheAnalysis.constraints)
    /\ Get(TheAnalysis.constraints).targetCount = Some(IF count < 15 THEN count ELSE 15)
    /\ Get(TheAnalysis.constraints).minCount = Some(IF count < 3 THEN count ELSE 3)
    /\ Len(TheAnalysis.keywords) <= 5
    /\ Len(TheAnalysis.keywords) <= Len(LongWords)
    /\ Len(LongWords) >= 5 => Len(TheAnalysis.keywords) = 5
    /\ \A i \in 1..Len(TheAnalysis.keywords) : TheAnalysis.keywords[i] = LongWords[i]
    /\ TheAnalysis.originalEmbedding = None

\* a failed completion request makes the analyzer return its fallback
FailureGivesFallback ==
    /\ analyzer \in {"idle", "waiting", "normal", "fallback"}
    /\ compCall = "failed" => analyzer \in {"waiting", "fallback"}
    /\ (compCall = "failed" /\ analyzer = "waiting") => AnalyzerJoinReady

\* C17, as the spec states it: the fallback's targetCount is the first
\* integer found in the prompt capped at 15, 10 when there is none
C17_FallbackCountIsFirstInteger ==
    /\ FailureGivesFallback
    /\ analyzer = "fallback" =>
           FallbackHas(IF IsSome(FirstInteger) THEN Get(FirstInteger) ELSE 10)

\* C17, amended: when the completion request fails or its content does not
\* parse, the analyzer returns the fallback without throwing, for every
\* prompt: targetCount is the first integer found in the prompt capped at
\* 15, or 10 when there is none or when it is 0; minCount is the lesser of
\* that count and 3; keywords are the first at most 5 words of the prompt
\* longer than 2 characters; originalEmbedding is absent.
C17_FallbackResult ==
    /\ FailureGivesFallback
    /\ analyzer = "fallback" =>
           FallbackHas(IF IsSome(FirstInteger) /\ Get(FirstInteger) # 0
                       THEN Get(FirstInteger) ELSE 10)

\* C17 witness: the completion request failed for a prompt whose first
\* integer is 0, and the fallback has targetCount 10 and minCount 3
C17_Witness ==
    /\ analyzer = "fallback"
    /\ compCall = "failed"
    /\ FirstInteger = Some(0)
    /\ Get(TheAnalysis.constraints).targetCount = Some(10)
    /\ Get(TheAnalysis.constraints).minCount = Some(3)

\* ------------------------------------------------------------------------
\* The specification of the fusion engine's synchronous part: the call of
\* combineAndVerifyAlignmentFast, up to its first await, with the lists two
\* fetchers may have returned for a request of up to 16 songs
\* ------------------------------------------------------------------------

MaxWebSongs == 1

MaxGenSongs == 2

\* as many songs as the analysis of the request asks for
ManySongs == Get(Get(AllAnalyses[4].constraints).targetCount)

FusionPrompts ==
    { <<"2"," ","s","a","d"," ","h","i","t","s">>, <<"s","a","d"," ","S","A","D"," ","a","b","b","a"," ","t","o","p">> }

\* songs as the extraction makes them: trimmed, longer than 2 characters,
\* with the year extractYear found or none, without an impact score
WebPool ==
    << MkSong(Some(<<"W","a","t","e","r","l","o","o">>), Some(<<"A","B","B","A">>), WebSource, Some(1974), None),
       MkSong(Some(<<"A"," ","V","e","r","y"," ","L","o","n","g"," ","S","o","n","g"," ","T","i","t","l","e"," ","E","x","t","e","n","d","e","d">>), Some(<<"X","y","z">>), WebSource, None, None),
       MkSong(Some(<<"S","a","d","-","S","o","n","g">>), Some(<<"L","o","u">>), WebSource, Some(2025), None) >>

\* songs as the generative model may write them
GenPool ==
    << MkSong(Some(<<" "," ","W","A","T","E","R","L","O","O"," ">>), Some(<<"a","b","b","a">>), AISource, Some(1974), Some(9)),
       MkSong(Some(<<"a"," ","v","e","r","y"," ","l","o","n","g"," ","s","o","n","g"," ","t","i","t","l","e"," ","t","r","u","n","c","a","t","e","d">>), Some(<<"x","y","z"," ">>), AISource, Some(1949), Some(5)),
       MkSong(None, Some(<<"x">>), AISource, None, None),
       MkSong(Some(<<"S","a","d">>), Some(<<"S","o","n","g","-","L","o","u">>), AISource, None, None),
       MkSong(Some(<<"S","a","d"," ","H","i","t","s">>), Some(<<"A","b","b","a">>), AISource, Some(2024), Some(6)),
       MkSong(Some(<<"W","a","t","e","r","l","o","o">>), Some(<<"A","b","b","a">>), AISource, None, None) >>

\* the lists of up to n songs of a pool
RECURSIVE ListsUpTo(_, _)
ListsUpTo(pool, n) ==
    IF n = 0 THEN {<<>>}
    ELSE LET shorter == ListsUpTo(pool, n - 1)
         IN shorter \cup {Append(s, pool[i]) : s \in shorter, i \in 1..Len(pool)}

\* a list of many songs of different titles, years and impact scores
LongGenList ==
    [i \in 1..ManySongs |->
        MkSong(Some(<<"T", LowerChars[i]>>), Some(<<"A","b","b","a">>), AISource,
               Some(1945 + 5 * i), Some(i % 10))]

\* the web fetcher returns a deduplicated list
FusionWebLists ==
    {l \in ListsUpTo(WebPool, MaxWebSongs) : removeDuplicateSongsFast(l) = l}

FusionGenLists == ListsUpTo(GenPool, MaxGenSongs) \cup {LongGenList}

\* both fetchers have returned to generateClassicRecommendations, for an
\* analysis that asks for 16 songs
InitFusion ==
    /\ prompt \in FusionPrompts
    /\ pc = "awaitFetchers"
    /\ observe = FALSE
    /\ returned = None /\ caught = ""
    /\ compCall = "ok" /\ embCall = "ok" /\ analyzer = "normal"
    /\ analysisResult = Some(NormalAnalysis(AllAnalyses[4], PromptVector))
    /\ webResults \in FusionWebLists
    /\ webCalls = <<[st |-> "ok", songs |-> webResults]>>
    /\ webFetch = "returned"
    /\ aiResults \in FusionGenLists
    /\ genCall = "ok" /\ genFetch = "returned"
    /\ fusion = "idle" /\ allSongs = <<>> /\ rankedSongs = <<>>
    /\ rankCall = "idle" /\ verifyCall = "idle" /\ verifySent = <<>>
    /\ alignedSongs = None
    /\ resolver = "idle" /\ songs = <<>> /\ catalog = 0 /\ batchStart = 0
    /\ tasks = <<>> /\ results = <<>> /\ completed = <<>>

NextFusion == FusionStart

SpecFusion == InitFusion /\ [][NextFusion]_vars

\* the list removeDuplicateSongsFast was called with
Merged == webResults \o aiResults

\* a title or an artist lowercased, trimmed and cut to its first 20 characters
CutTo20(o) ==
    IF ~IsSome(o) THEN UndefinedStr
    ELSE LET t == Trim(ToLower(Get(o)))
         IN IF Len(t) <= 20 THEN t ELSE SubSeq(t, 1, 20)

\* the dedupe key of a song: the two, joined by a hyphen
KeyOf(song) == CutTo20(song.title) \o <<"-">> \o CutTo20(song.artist)

\* the positions of the songs that are the first of the input with their key
FirstOfKey == {i \in 1..Len(Merged) : \A h \in 1..(i - 1) : KeyOf(Merged[h]) # KeyOf(Merged[i])}

\* the position in the input of the j-th of these
RECURSIVE NthOf(_, _)
NthOf(S, j) ==
    LET least == CHOOSE i \in S : \A h \in S : i <= h
    IN IF j = 1 THEN least ELSE NthOf(S \ {least}, j - 1)

PromptWords == SelectSeq(SplitSpace(ToLower(prompt)), LongerThan2)

\* how many of them occur in the lowercased "title artist" text of a song
WordsFound(song) ==
    LET text == ToLower(Str(song.title) \o <<" ">> \o Str(song.artist))
    IN Cardinality({i \in 1..Len(PromptWords) : Includes(text, PromptWords[i])})

\* a title or an artist is missing or shorter than 2 characters
TooShort(o) == o = None \/ Len(Get(o)) < 2

\* the basic score the claim gives a song
ClaimedScore(song) ==
    (IF song.source = "mistral_ai_generation" THEN 5 ELSE 0)
    + (IF song.source = "brave_search" THEN 2 ELSE 0)
    + (IF song.year # None /\ Get(song.year) \in 1950..2024 THEN 2 ELSE 0)
    + (IF song.cultural_impact_score # None /\ Get(song.cultural_impact_score) >= 6
       THEN 3 ELSE 0)
    + WordsFound(song)
    - (IF TooShort(song.title) THEN 3 ELSE 0)
    - (IF TooShort(song.artist) THEN 3 ELSE 0)

\* a scored candidate is this merged song
IsScored(candidate, song) ==
    \A f \in DOMAIN song : candidate[f] = song[f]

\* the merged songs that are among the candidates passed on
PassedOn == {i \in 1..Len(allSongs) : \E j \in 1..Len(rankedSongs) : IsScored(rankedSongs[j], allSongs[i])}

\* C20: the basic score of every merged song is as the spec gives it, and
\* the candidates passed on are the at most 15 highest-scoring merged songs,
\* in descending order of score.
C20_BasicScoreAndTop15 ==
    (fusion \in {"ranking", "verifying"} /\ rankCall \in {"idle", "pending"}) =>
        /\ Len(rankedSongs) = (IF Len(allSongs) < 15 THEN Len(allSongs) ELSE 15)
        /\ Cardinality(PassedOn) = Len(rankedSongs)
        /\ \A j \in 1..Len(rankedSongs) :
               \E i \in 1..Len(allSongs) :
                   /\ IsScored(rankedSongs[j], allSongs[i])
                   /\ rankedSongs[j].basicScore = ClaimedScore(allSongs[i])
        /\ \A j, h \in 1..Len(rankedSongs) :
               j < h => rankedSongs[j].basicScore >= rankedSongs[h].basicScore
        /\ \A i \in 1..Len(allSongs) :
               i \notin PassedOn =>
                   \A j \in 1..Len(rankedSongs) :
                       ClaimedScore(allSongs[i]) <= rankedSongs[j].basicScore

\* C20 witness: 17 merged songs of different scores, one of them without a
\* title and with a one-letter artist (5 - 3 - 3 = -1); 15 candidates are
\* passed on, the first with a score of 10 or more
C20_Witness ==
    /\ fusion \in {"ranking", "verifying"}
    /\ Len(allSongs) = 17
    /\ Len(rankedSongs) = 15
    /\ rankedSongs[1].basicScore >= 10
    /\ rankedSongs[1].basicScore > rankedSongs[15].basicScore

\* the candidates' embedding call failed or returned too few vectors
RankFellBack == rankCall \in {"failed", "short"}

\* while the fusion engine runs: without an embedding of the prompt the
\* candidates' embedding call is never issued; after a failed or short call
\* the candidates are still in basic-score order, their first 10 are what the
\* verifier is sent, and the engine is verifying or has ended for a reason of
\* the verification
C19_RankStates ==
    pc = "awaitFusion" =>
        /\ TheAnalysis.originalEmbedding = None => rankCall = "idle"
        /\ RankFellBack =>
               /\ rankedSongs = TopCandidates(allSongs, prompt)
               /\ verifySent = Take(rankedSongs, 10)
               /\ fusion \in {"verifying", "returned", "threw"}
               /\ fusion = "verifying" => verifyCall = "pending"
               /\ fusion = "threw" =>
                      verifyCall \in {"failed", "garbage"} \/ ~HasConstraints

\* the step in which the embedding call fails or comes back short leaves the
\* candidates as they were and issues the verification call
C19_FallBackStep ==
    (rankCall = "pending" /\ rankCall' \in {"failed", "short"}) =>
        /\ rankedSongs' = rankedSongs
        /\ fusion' = "verifying"
        /\ verifyCall' = "pending"

\* C19: a failed or short candidate embedding call never aborts the fusion
\* engine, the candidates go on to verification in their basic-score order,
\* unmodified; without an embedding of the original prompt the call is not
\* issued at all.
C19_RankNeverAborts == [](C19_RankStates) /\ [][C19_FallBackStep]_vars

\* C19 witness: the embedding call failed or came back short for two or more
\* candidates, and the verification that followed returned its songs
C19_Witness ==
    /\ pc = "awaitFusion"
    /\ RankFellBack
    /\ Len(rankedSongs) >= 2
    /\ rankedSongs = TopCandidates(allSongs, prompt)
    /\ verifyCall = "ok"
    /\ fusion = "returned"

\* ------------------------------------------------------------------------
\* Extraction alone: one search call whose response body has arrived, and
\* the step that extracts its songs (lines 245-246)
\* ------------------------------------------------------------------------

MaxDataResults == 6

\* the results a response body may hold: one with 3 matches of each pattern,
\* one with matches of the second pattern only, one whose first match is too
\* short to be kept, and one with a single match
ResultKinds ==
    { MkResult(<< MkMatch(<<"A","l","p","h","a">>, <<"A","n","n">>), MkMatch(<<"B","r","a","v","o">>, <<"B","o","b">>),
                  MkMatch(<<"C","h","a","r","l","i","e">>, <<"C","a","t">>) >>,
               << MkMatch(<<"D","e","l","t","a">>, <<"D","a","n">>), MkMatch(<<"E","c","h","o"," ">>, <<" ","E","v","e">>),
                  MkMatch(<<"F","o","x","t","r","o","t">>, <<"F","a","y">>) >>, Some(1999)),
      MkResult(<<>>, << MkMatch(<<"G","o","l","f">>, <<"G","u","s">>), MkMatch(<<"H","o","t","e","l">>, <<"H","a","l">>) >>, None),
      MkResult(<< MkMatch(<<"a","b">>, <<"c","d">>), MkMatch(<<"I","n","d","i","a">>, <<"I","a","n">>) >>,
               << MkMatch(<<"J","u","l","i","e","t">>, <<"J","i","m">>) >>, Some(2010)),
      MkResult(<< MkMatch(<<"K","i","l","o">>, <<"K","e","n">>) >>, <<>>, None) }

\* the bodies of a response: data.web.results missing, or up to
\* MaxDataResults results
ExtractDatas ==
    {None} \cup {Some(l) : l \in UNION {[1..k -> ResultKinds] : k \in 0..MaxDataResults}}

\* a request with one search query: searchWithBraveAPIFast waits for its
\* call, whose response is OK and whose body parsed to data
InitExtract ==
    /\ prompt \in FusionPrompts
    /\ pc = "awaitFetchers"
    /\ observe = FALSE
    /\ returned = None /\ caught = ""
    /\ compCall = "ok" /\ embCall = "ok" /\ analyzer = "normal"
    /\ analysisResult = Some(NormalAnalysis(AllAnalyses[2], PromptVector))
    /\ \E d \in ExtractDatas : webCalls = <<[st |-> "pending", songs |-> <<>>, data |-> d]>>
    /\ webFetch = "waiting" /\ webResults = <<>>
    /\ aiResults = <<>>
    /\ genCall = "pending" /\ genFetch = "waiting"
    /\ fusion = "idle" /\ allSongs = <<>> /\ rankedSongs = <<>>
    /\ rankCall = "idle" /\ verifyCall = "idle" /\ verifySent = <<>>
    /\ alignedSongs = None
    /\ resolver = "idle" /\ songs = <<>> /\ catalog = 0 /\ batchStart = 0
    /\ tasks = <<>> /\ results = <<>> /\ completed = <<>>

\* return extractSongsFromBraveResultsFast(data, query)
ExtractSettles ==
    /\ webCalls[1].st = "pending"
    /\ webCalls' = <<[st |-> "ok",
                      songs |-> extractSongsFromBraveResultsFast(webCalls[1].data),
                      data |-> webCalls[1].data]>>
    /\ UNCHANGED <<entryVars, analyzerVars, webFetch, webResults, genCall, genFetch,
                   aiResults, fusionVars, resolverVars>>

NextExtract == ExtractSettles

SpecExtract == InitExtract /\ [][NextExtract]_vars

\* the songs a pattern's first two matches give, those with both groups
\* longer than 2 characters
KeptOfPattern(matches, year) ==
    LET first2 == SubSeq(matches, 1, IF Len(matches) < 2 THEN Len(matches) ELSE 2)
        ok == {i \in 1..Len(first2) : Len(first2[i].g1) > 2 /\ Len(first2[i].g2) > 2}
    IN [j \in 1..Cardinality(ok) |->
           LET m == first2[NthOf(ok, j)]
           IN [title |-> Some(Trim(m.g1)), artist |-> Some(Trim(m.g2)),
               source |-> "brave_search", year |-> year,
               cultural_impact_score |-> None, alignment_score |-> None]]

\* what the claim lets one result contribute: the songs of its two patterns,
\* up to that result's third
ResultContribution(result) ==
    LET both == KeptOfPattern(result.m1, result.year) \o KeptOfPattern(result.m2, result.year)
    IN SubSeq(both, 1, IF Len(both) < 3 THEN Len(both) ELSE 3)

RECURSIVE ContributionsOf(_)
ContributionsOf(rs) ==
    IF rs = <<>> THEN <<>> ELSE ResultContribution(Head(rs)) \o ContributionsOf(Tail(rs))

\* the extraction the claim describes
ClaimedExtraction(data) ==
    IF data = None THEN <<>>
    ELSE LET rs == Get(data)
             top5 == SubSeq(rs, 1, IF Len(rs) < 5 THEN Len(rs) ELSE 5)
             all == ContributionsOf(top5)
         IN SubSeq(all, 1, IF Len(all) < 8 THEN Len(all) ELSE 8)

\* C21: of each of the top 5 results the first 2 matches of each pattern are
\* kept, a result contributes no song after its third, the count that stops
\* the extraction for a result is that result's own, and the first 8 songs
\* are kept for the query.
C21_PerResultLimits ==
    webCalls[1].st = "ok" =>
        webCalls[1].songs = ClaimedExtraction(webCalls[1].data)

\* C22: deduplication is idempotent: removeDuplicateSongsFast applied to its
\* own output returns that output, the same songs in the same order.
C22_DedupeIdempotent ==
    fusion # "idle" => removeDuplicateSongsFast(allSongs) = allSongs

\* C22 witness: three songs of one key among the merged songs, of which the
\* deduplication kept the first, and a song of another key after it
C22_Witness ==
    /\ fusion # "idle"
    /\ Len(Merged) = 3
    /\ DedupeKey(Merged[1]) = DedupeKey(Merged[2])
    /\ DedupeKey(Merged[1]) = DedupeKey(Merged[3])
    /\ allSongs = <<Merged[1]>>

\* a fraction that is a number between 0 and 1
InUnitInterval(f) == f[2] > 0 /\ 0 <= f[1] /\ f[1] <= f[2]

\* task k's query of a formulation has been answered
Answered(k, strategy) ==
    IF strategy = "strict" THEN tasks[k].st # "strict"
    ELSE tasks[k].st = "done" /\ tasks[k].issued = 2

\* the candidates of an answer that findBestTrackMatchFast scores for a song:
\* those up to the first that scores above 0.5
ScoredOf(items, song) ==
    {j \in 1..Len(items) :
        /\ IsSome(song.title) /\ IsSome(song.artist)
        /\ \A h \in 1..(j - 1) : ~GoodMatch(items[h], song)}

\* the similarities and the combined score of every scored candidate with
\* at least min artists are between 0 and 1, and the similarity of identical
\* strings is 1
ScoresInUnitInterval(min) ==
    InBatch =>
        \A k \in 1..Len(tasks) : \A strategy \in {"strict", "loose"} :
            Answered(k, strategy) =>
                LET items == Candidates(k, strategy)
                    song == TaskSong(k)
                IN \A j \in ScoredOf(items, song) :
                       Len(items[j].artists) >= min =>
                           /\ InUnitInterval(TitleSim(items[j], song))
                           /\ ToLower(items[j].name) = ToLower(Get(song.title)) =>
                                  TitleSim(items[j], song) = <<1, 1>>
                           /\ \A a \in 1..Len(items[j].artists) :
                                  InUnitInterval(calculateStringSimilarityFast(
                                      ToLower(items[j].artists[a]), ToLower(Get(song.artist))))
                           /\ InUnitInterval(CombinedScore(items[j], song))

\* C23: for every candidate a search returns and every target song, the
\* similarities are between 0 and 1 (1 for identical strings) and the combined
\* score 0.6 x title similarity + 0.4 x best artist similarity is between 0
\* and 1, also for a candidate whose artist list is empty.
C23_ScoresInUnitInterval == ScoresInUnitInterval(0)

\* the same for the candidates that have an artist
ScoresWithArtistsInUnitInterval == ScoresInUnitInterval(1)

====
